---- MODULE Spec2Model ----
(***************************************************************************)
(* Aegis: the symmetric ratchet (src/src/crypto/ratchet.rs), the key       *)
(* derivation it uses (src/src/crypto/kdf.rs), the AEAD                    *)
(* (src/src/crypto/symmetric.rs) and the session layer                     *)
(* (src/src/session.rs) over a reliable in-order frame transport.          *)
(*                                                                         *)
(* Keys are symbolic terms: HKDF-SHA256 and HMAC-SHA256 are modelled as    *)
(* collision-free functions of their inputs, so a key is the base secret   *)
(* it was derived from together with the path of derivation steps.  Equal  *)
(* terms are equal byte strings; distinct terms are distinct keys.         *)
(***************************************************************************)
EXTENDS Integers, Sequences, FiniteSets, TLC

(***************************************************************************)
(* Program constants                                                       *)
(***************************************************************************)
ROTATION_INTERVAL_SECS == 60

MAX_SKIP == 1000

SKIPPED_CLEAR_LIMIT == 100

CHAIN_ADVANCE_CONTEXT == "chain-advance"

CURRENT_PROTOCOL_VERSION == 1

\* max_skew in Message::validate
MAX_SKEW_SECS == 300

\* HANDSHAKE_TIMEOUT, in seconds
HANDSHAKE_TIMEOUT == 30

\* kyber1024::public_key_bytes() and kyber1024::ciphertext_bytes()
KYBER_PUBLIC_KEY_BYTES == 1568

KYBER_CIPHERTEXT_BYTES == 1568

\* replay.rs
MAX_WINDOW_SIZE == 10000

MAX_TIME_SKEW_SECS == 300

(***************************************************************************)
(* Bounds of the model                                                     *)
(***************************************************************************)
\* the wall-clock second at which a run starts
T0 == 1000

\* small counters a caller may pass to get_recv_key (0..MaxCtr)
MaxCtr == 3

\* how far the sequence numbers passed to check_message spread
MaxSeq == 2

\* how many messages the two endpoints send in all
MaxSend == 2

\* how many times the owner of one session calls ratchet.rotate()
MaxRotate == 1

\* how many times the owner of one ratchet calls rekey()
MaxRekey == 1

\* how many calls the owner of one ratchet makes in all
MaxCalls == 3

\* how many frames the man in the middle tampers with
MaxTamper == 1

\* how many times the peer of a Connection writes
MaxWrite == 2

\* how many frames an endpoint is sent, and how many recv() calls it makes,
\* where heartbeats are answered
MaxFrames == 2

RootKey(r) == [base |-> r, path |-> <<>>]

Ends == {"I", "R"}

Peer(e) == IF e = "I" THEN "R" ELSE "I"

\* the plaintexts the callers send
Plain == {"ping", "pong"}

\* seconds elapsed since the run began at which something happens
TimePoints == {0, 1, HANDSHAKE_TIMEOUT, ROTATION_INTERVAL_SECS}

\* how far the wall clock of an endpoint is ahead of true time
Skews == {0, MAX_SKEW_SECS + 1}

(***************************************************************************)
(* kdf.rs                                                                  *)
(***************************************************************************)
\* HKDF-SHA256(salt, ikm) expanded with info: one derivation step appended to
\* the term.  A run of identical steps is stored as one step with its length,
\* so the term of a long chain stays small.
derive_keys(ikm, salt, info) ==
    LET n == Len(ikm.path)
    IN  IF n > 0 /\ ikm.path[n][1] = "hkdf" /\ ikm.path[n][2] = salt
              /\ ikm.path[n][3] = info
        THEN [ikm EXCEPT !.path[n][4] = @ + 1]
        ELSE [ikm EXCEPT !.path = Append(@, <<"hkdf", salt, info, 1>>)]

derive_chain_key(previous_chain_key, context) ==
    derive_keys(previous_chain_key, "", <<context>>)

\* info = "aegis-message-key-v1" followed by the counter's 8 little-endian bytes
derive_message_key(chain_key, message_number) ==
    derive_keys(chain_key, "", <<"aegis-message-key-v1", message_number>>)

\* HMAC-SHA256(key, constant)
ratchet_key_hmac(key, constant) ==
    [key EXCEPT !.path = Append(@, <<"hmac", constant>>)]

(***************************************************************************)
(* ratchet.rs                                                              *)
(***************************************************************************)
EmptyCache == [i \in {} |-> 0]

Ok(v) == [ok |-> TRUE, val |-> v]

Err(e) == [ok |-> FALSE, err |-> e]

RatchetState_new(root_key, now) ==
    [root_key |-> root_key,
     send_chain_key |-> ratchet_key_hmac(root_key, "send-chain-v1"),
     recv_chain_key |-> ratchet_key_hmac(root_key, "recv-chain-v1"),
     send_counter |-> 0,
     recv_counter |-> 0,
     last_rotation |-> now,
     skipped_message_keys |-> EmptyCache]

\* a responder whose chains are not swapped
RatchetState_new_responder_Unswapped(root_key, now) ==
    RatchetState_new(root_key, now)

RatchetState_new_responder(root_key, now) ==
    [root_key |-> root_key,
     send_chain_key |-> ratchet_key_hmac(root_key, "recv-chain-v1"),
     recv_chain_key |-> ratchet_key_hmac(root_key, "send-chain-v1"),
     send_counter |-> 0,
     recv_counter |-> 0,
     last_rotation |-> now,
     skipped_message_keys |-> EmptyCache]

\* n bytes b: a byte string is a sequence of runs <<n, b>> of equal bytes
Rep(b, n) == IF n = 0 THEN <<>> ELSE <<(<<n, b>>)>>

\* x followed by y
BCat(x, y) ==
    IF x = <<>> THEN y
    ELSE IF y = <<>> THEN x
    ELSE IF x[Len(x)][2] = y[1][2]
    THEN SubSeq(x, 1, Len(x) - 1)
            \o <<(<<x[Len(x)][1] + y[1][1], y[1][2]>>)>> \o Tail(y)
    ELSE x \o y

\* the w bytes of x, least significant byte first
RECURSIVE to_le_bytes(_, _)
to_le_bytes(x, w) ==
    IF w = 0 THEN <<>>
    ELSE BCat(Rep(x % 256, 1), to_le_bytes(x \div 256, w - 1))

\* a rotation that derives the chains afresh from the unchanged root key
rotate_FromRoot(r, now) ==
    [r EXCEPT
        !.send_chain_key = ratchet_key_hmac(r.root_key, "send-chain-v1"),
        !.recv_chain_key = ratchet_key_hmac(r.root_key, "recv-chain-v1"),
        !.send_counter = 0,
        !.recv_counter = 0,
        !.last_rotation = now]

\* mutant: the rotation also resets the message counters
rotate_ResetCounters(r, now) ==
    LET context == <<"rotation-v1-", to_le_bytes(now, 8)>>
    IN  [r EXCEPT
            !.send_chain_key = ratchet_key_hmac(@, context),
            !.recv_chain_key = ratchet_key_hmac(@, context),
            !.send_counter = 0,
            !.recv_counter = 0,
            !.last_rotation = now,
            !.skipped_message_keys =
                IF Cardinality(DOMAIN @) > SKIPPED_CLEAR_LIMIT
                THEN EmptyCache ELSE @]

\* mutant: the cache is cleared from SKIPPED_CLEAR_LIMIT entries on
rotate_ClearAtLimit(r, now) ==
    LET context == <<"rotation-v1-", to_le_bytes(now, 8)>>
    IN  [r EXCEPT
            !.send_chain_key = ratchet_key_hmac(@, context),
            !.recv_chain_key = ratchet_key_hmac(@, context),
            !.last_rotation = now,
            !.skipped_message_keys =
                IF Cardinality(DOMAIN @) >= SKIPPED_CLEAR_LIMIT
                THEN EmptyCache ELSE @]

rotate(r, now) ==
    LET context == <<"rotation-v1-", to_le_bytes(now, 8)>>
    IN  [r EXCEPT
            !.send_chain_key = ratchet_key_hmac(@, context),
            !.recv_chain_key = ratchet_key_hmac(@, context),
            !.last_rotation = now,
            !.skipped_message_keys =
                IF Cardinality(DOMAIN @) > SKIPPED_CLEAR_LIMIT
                THEN EmptyCache ELSE @]

\* mutant: the rotation is due one second later
check_and_rotate_Late(r, now) ==
    IF now > r.last_rotation + ROTATION_INTERVAL_SECS THEN rotate(r, now) ELSE r

check_and_rotate(r, now) ==
    IF now >= r.last_rotation + ROTATION_INTERVAL_SECS THEN rotate(r, now) ELSE r

\* mutant: the chain is advanced but send_counter is not
next_send_key_KeepCounter(r0, now) ==
    LET r == check_and_rotate(r0, now)
    IN  [st |-> [r EXCEPT
                    !.send_chain_key = derive_chain_key(@, CHAIN_ADVANCE_CONTEXT)],
         key |-> derive_message_key(r.send_chain_key, r.send_counter),
         counter |-> r.send_counter]

\* the state after the call, the message key and its counter
next_send_key(r0, now) ==
    LET r == check_and_rotate(r0, now)
    IN  [st |-> [r EXCEPT
                    !.send_chain_key = derive_chain_key(@, CHAIN_ADVANCE_CONTEXT),
                    !.send_counter = @ + 1],
         key |-> derive_message_key(r.send_chain_key, r.send_counter),
         counter |-> r.send_counter]

\* the loop `for i in recv_counter..message_counter`, from its state ls (the
\* ratchet and the loop variable i) until i reaches hi: each pass inserts the
\* key derived from the current recv_chain_key under i and then advances
\* recv_chain_key (the passes are grouped in halves to keep the evaluation
\* shallow)
RECURSIVE SkipLoop(_, _)
SkipLoop(ls, hi) ==
    IF ls.i >= hi THEN ls
    ELSE IF ls.i + 1 = hi
    THEN [i |-> ls.i + 1,
          r |-> [ls.r EXCEPT
                    !.skipped_message_keys =
                        (ls.i :> derive_message_key(ls.r.recv_chain_key, ls.i)) @@ @,
                    !.recv_chain_key = derive_chain_key(@, CHAIN_ADVANCE_CONTEXT)]]
    ELSE SkipLoop(SkipLoop(ls, ls.i + ((hi - ls.i) \div 2)), hi)

\* mutant: every skipped key is derived from the chain key the loop started with
StoreSkipped_StaleChain(r, message_counter) ==
    LET done == SkipLoop([i |-> r.recv_counter, r |-> r], message_counter).r
    IN  [done EXCEPT !.skipped_message_keys =
            [i \in DOMAIN @ |->
                IF i >= r.recv_counter
                THEN derive_message_key(r.recv_chain_key, i) ELSE @[i]]]

StoreSkipped(r, message_counter) ==
    SkipLoop([i |-> r.recv_counter, r |-> r], message_counter).r

\* mutant: the skip limit is tested with >= instead of >
get_recv_key_derive_OffByOne(r, message_counter) ==
    IF message_counter > r.recv_counter
          /\ message_counter - r.recv_counter >= MAX_SKIP
    THEN [st |-> r, res |-> Err("TooManySkippedMessages")]
    ELSE
      LET r1 == IF message_counter > r.recv_counter
                THEN [StoreSkipped(r, message_counter)
                         EXCEPT !.recv_counter = message_counter]
                ELSE r
          message_key == derive_message_key(r1.recv_chain_key, message_counter)
          r2 == IF message_counter = r1.recv_counter
                THEN [r1 EXCEPT
                        !.recv_chain_key =
                            derive_chain_key(@, CHAIN_ADVANCE_CONTEXT),
                        !.recv_counter = @ + 1]
                ELSE r1
      IN  [st |-> r2, res |-> Ok(message_key)]

\* get_recv_key when message_counter is not in the skipped-key cache: the
\* state after the call and its result
get_recv_key_derive(r, message_counter) ==
    IF message_counter > r.recv_counter
          /\ message_counter - r.recv_counter > MAX_SKIP
    THEN [st |-> r, res |-> Err("TooManySkippedMessages")]
    ELSE
      LET r1 == IF message_counter > r.recv_counter
                THEN [StoreSkipped(r, message_counter)
                         EXCEPT !.recv_counter = message_counter]
                ELSE r
          message_key == derive_message_key(r1.recv_chain_key, message_counter)
          r2 == IF message_counter = r1.recv_counter
                THEN [r1 EXCEPT
                        !.recv_chain_key =
                            derive_chain_key(@, CHAIN_ADVANCE_CONTEXT),
                        !.recv_counter = @ + 1]
                ELSE r1
      IN  [st |-> r2, res |-> Ok(message_key)]

\* mutant: a cached key is read but left in the cache (get instead of remove)
get_recv_key_KeepCached(r, message_counter) ==
    IF message_counter \in DOMAIN r.skipped_message_keys
    THEN [st |-> r, res |-> Ok(r.skipped_message_keys[message_counter])]
    ELSE get_recv_key_derive(r, message_counter)

\* the state after the call and its result
get_recv_key(r, message_counter) ==
    IF message_counter \in DOMAIN r.skipped_message_keys
    THEN [st |-> [r EXCEPT !.skipped_message_keys =
                      [i \in (DOMAIN @) \ {message_counter} |-> @[i]]],
          res |-> Ok(r.skipped_message_keys[message_counter])]
    ELSE get_recv_key_derive(r, message_counter)

\* a rekey that keeps the skipped-key cache
rekey_KeepCache(r, new_root_key, now) ==
    [root_key |-> new_root_key,
     send_chain_key |-> ratchet_key_hmac(new_root_key, "send-chain-v1"),
     recv_chain_key |-> ratchet_key_hmac(new_root_key, "recv-chain-v1"),
     send_counter |-> 0,
     recv_counter |-> 0,
     last_rotation |-> now,
     skipped_message_keys |-> r.skipped_message_keys]

rekey(r, new_root_key, now) ==
    [root_key |-> new_root_key,
     send_chain_key |-> ratchet_key_hmac(new_root_key, "send-chain-v1"),
     recv_chain_key |-> ratchet_key_hmac(new_root_key, "recv-chain-v1"),
     send_counter |-> 0,
     recv_counter |-> 0,
     last_rotation |-> now,
     skipped_message_keys |-> EmptyCache]

(***************************************************************************)
(* kdf.rs, kyber.rs, symmetric.rs: the primitives of the session           *)
(***************************************************************************)
\* HKDF of the shared secret with the salt, info "aegis-master-key-v1"
derive_master_key(shared_secret, salt) ==
    derive_keys(RootKey(shared_secret), salt, <<"aegis-master-key-v1">>)

\* KeyPair::generate: the key pair drawn with randomness id
KeyPair_generate(id) ==
    [public |-> [len |-> KYBER_PUBLIC_KEY_BYTES, val |-> <<"pk", id>>],
     secret |-> <<"sk", id>>]

\* PublicKey::from_bytes / Ciphertext::from_bytes: the length is validated
PublicKey_from_bytes(bytes) ==
    IF bytes.len # KYBER_PUBLIC_KEY_BYTES THEN Err("InvalidKey") ELSE Ok(bytes)

Ciphertext_from_bytes(bytes) ==
    IF bytes.len # KYBER_CIPHERTEXT_BYTES THEN Err("InvalidKey") ELSE Ok(bytes)

\* PublicKey::encapsulate with randomness rnd: the shared secret and its
\* ciphertext
encapsulate(public_key, rnd) ==
    [shared_secret |-> <<"ss", public_key.val, rnd>>,
     ciphertext |-> [len |-> KYBER_CIPHERTEXT_BYTES,
                     val |-> <<"ct", public_key.val, rnd>>]]

\* KeyPair::decapsulate: the encapsulated secret, or Kyber's implicit
\* rejection value for a ciphertext that was not made for this key pair
decapsulate(keypair, ciphertext) ==
    IF Len(ciphertext.val) = 3 /\ ciphertext.val[1] = "ct"
          /\ ciphertext.val[2] = keypair.public.val
    THEN <<"ss", keypair.public.val, ciphertext.val[3]>>
    ELSE <<"reject", keypair.secret, ciphertext.val>>

\* encrypt_simple: XChaCha20-Poly1305 under key with the generated nonce; the
\* ciphertext with its tag is a term over key, nonce and plaintext
encrypt_simple(key, plaintext, nonce) ==
    [nonce |-> nonce,
     ciphertext |-> [key |-> key, nonce |-> nonce, pt |-> plaintext,
                     flipped |-> FALSE]]

\* decrypt_simple: the tag verifies only for the key and nonce the ciphertext
\* was made with, and only if no bit of it was changed
decrypt_simple(key, encrypted) ==
    IF encrypted.ciphertext.key = key
          /\ encrypted.ciphertext.nonce = encrypted.nonce
          /\ ~encrypted.ciphertext.flipped
    THEN Ok(encrypted.ciphertext.pt)
    ELSE Err("Authentication failed or invalid ciphertext")

(***************************************************************************)
(* protocol.rs                                                             *)
(***************************************************************************)
Message_new(message_type, payload, now) ==
    [version |-> CURRENT_PROTOCOL_VERSION,
     message_type |-> message_type,
     timestamp |-> now,
     key_id |-> 0,
     payload |-> payload]

Message_handshake(public_key, now) ==
    Message_new("Handshake",
                [variant |-> "Handshake", public_key |-> public_key], now)

Message_handshake_response(ciphertext, now) ==
    Message_new("HandshakeResponse",
                [variant |-> "HandshakeResponse", ciphertext |-> ciphertext], now)

Message_encrypted(nonce, ciphertext, message_counter, key_id, now) ==
    [Message_new("EncryptedMessage",
                 [variant |-> "EncryptedData", nonce |-> nonce,
                  ciphertext |-> ciphertext,
                  message_counter |-> message_counter], now)
        EXCEPT !.key_id = key_id]

Message_heartbeat(now) ==
    Message_new("Heartbeat", [variant |-> "Heartbeat"], now)

\* the payload variant validate accepts for a message type
VariantOf(message_type) ==
    IF message_type = "EncryptedMessage" THEN "EncryptedData" ELSE message_type

NetErr(kind, text) == Err([kind |-> kind, text |-> text])

\* a validate that refuses a timestamp of exactly now + 300
validate_StrictSkew(msg, now) ==
    IF msg.version > CURRENT_PROTOCOL_VERSION
    THEN NetErr("ProtocolError", "Unsupported protocol version")
    ELSE IF msg.timestamp >= now + MAX_SKEW_SECS
    THEN NetErr("ProtocolError", "Timestamp too far in the future")
    ELSE IF msg.payload.variant = VariantOf(msg.message_type)
    THEN Ok("valid")
    ELSE NetErr("ProtocolError", "Message type and payload mismatch")

validate(msg, now) ==
    IF msg.version > CURRENT_PROTOCOL_VERSION
    THEN NetErr("ProtocolError", "Unsupported protocol version")
    ELSE IF msg.timestamp > now + MAX_SKEW_SECS
    THEN NetErr("ProtocolError", "Timestamp too far in the future")
    ELSE IF msg.payload.variant = VariantOf(msg.message_type)
    THEN Ok("valid")
    ELSE NetErr("ProtocolError", "Message type and payload mismatch")

(***************************************************************************)
(* One ratchet driven by an arbitrary caller                               *)
(***************************************************************************)
VARIABLES
    rt,        \* the RatchetState
    rt0,       \* the RatchetState as it was constructed
    rlast,     \* the last call: its name, argument and result, and what the
               \* argument was to the state the call found
    requested, \* the counters get_recv_key has been called with
    repeated,  \* some counter was passed to get_recv_key twice
    failed     \* some call returned an error

rvars == <<rt, rt0, rlast, requested, repeated, failed>>

(***************************************************************************)
(* Two endpoints, Session::connect on I and Session::accept on R, joined   *)
(* by a reliable in-order stream                                           *)
(***************************************************************************)
VARIABLES
    time,     \* seconds of true time elapsed
    skew,     \* skew[e]: how far the wall clock of e is ahead of true time
    pc,       \* pc[e]: where the handshake call of e stands
    since,    \* since[e]: the time at which e began to wait for its frame
    hsres,    \* hsres[e]: the error the handshake call of e returned
    keypair,  \* the ephemeral key pair of the initiator, in a sequence
    wire,     \* wire[e]: the frames written towards e and not yet read
    sess,     \* sess[e]: the Session of e, for the ends that hold one
    sent,     \* sent[e]: one entry per EncryptedMessage e has written
    rcvd,     \* rcvd[e]: one entry per frame a recv call of e has read
    rots,     \* rots[e]: one entry per rotate() run on the ratchet of e
    tampers   \* how many frames were changed in transit

svars == <<time, skew, pc, since, hsres, keypair, wire, sess, sent, rcvd, rots,
           tampers>>

(***************************************************************************)
(* replay.rs: ReplayProtection                                             *)
(***************************************************************************)
\* u64::saturating_sub
saturating_sub(a, b) == IF a >= b THEN a - b ELSE 0

ReplayProtection_new ==
    [seen_messages |-> {}, last_sequence |-> 0, window_size |-> MAX_WINDOW_SIZE]

is_timestamp_valid(timestamp, clock) ==
    /\ timestamp <= clock + MAX_TIME_SKEW_SECS
    /\ timestamp + MAX_TIME_SKEW_SECS >= clock

\* a cleanup that also keeps the entry at the cutoff
cleanup_old_entries_KeepCutoff(p) ==
    LET cutoff == saturating_sub(p.last_sequence, p.window_size)
    IN  [p EXCEPT !.seen_messages = {seq \in @ : seq >= cutoff}]

cleanup_old_entries(p) ==
    LET cutoff == saturating_sub(p.last_sequence, p.window_size)
    IN  [p EXCEPT !.seen_messages = {seq \in @ : seq > cutoff}]

\* a freshness test that only looks into the future
check_message_NoStaleTest(p, sequence, timestamp, clock) ==
    IF timestamp > clock + MAX_TIME_SKEW_SECS \/ sequence \in p.seen_messages
    THEN [st |-> p, res |-> FALSE]
    ELSE [st |-> [p EXCEPT !.seen_messages = @ \cup {sequence},
                           !.last_sequence = IF sequence > @ THEN sequence ELSE @],
          res |-> TRUE]

\* a window test that rejects everything older than the newest number
check_message_NoWindow(p, sequence, timestamp, clock) ==
    IF \/ ~is_timestamp_valid(timestamp, clock)
       \/ sequence \in p.seen_messages
       \/ sequence < p.last_sequence
    THEN [st |-> p, res |-> FALSE]
    ELSE [st |-> [p EXCEPT !.seen_messages = @ \cup {sequence},
                           !.last_sequence = sequence],
          res |-> TRUE]

\* mutant: last_sequence becomes the number accepted last
check_message_LastAccepted(p, sequence, timestamp, clock) ==
    IF ~is_timestamp_valid(timestamp, clock)
    THEN [st |-> p, res |-> FALSE]
    ELSE IF sequence \in p.seen_messages
    THEN [st |-> p, res |-> FALSE]
    ELSE IF sequence < saturating_sub(p.last_sequence, p.window_size)
    THEN [st |-> p, res |-> FALSE]
    ELSE LET p1 == [p EXCEPT
                       !.seen_messages = @ \cup {sequence},
                       !.last_sequence = sequence]
         IN  [st |-> IF Cardinality(p1.seen_messages) > MAX_WINDOW_SIZE
                     THEN cleanup_old_entries(p1)
                     ELSE p1,
              res |-> TRUE]

\* mutant: the number is inserted before the window test
check_message_InsertFirst(p, sequence, timestamp, clock) ==
    IF ~is_timestamp_valid(timestamp, clock)
    THEN [st |-> p, res |-> FALSE]
    ELSE IF sequence \in p.seen_messages
    THEN [st |-> p, res |-> FALSE]
    ELSE IF sequence < saturating_sub(p.last_sequence, p.window_size)
    THEN [st |-> [p EXCEPT !.seen_messages = @ \cup {sequence}], res |-> FALSE]
    ELSE LET p1 == [p EXCEPT
                       !.seen_messages = @ \cup {sequence},
                       !.last_sequence = IF sequence > @ THEN sequence ELSE @]
         IN  [st |-> IF Cardinality(p1.seen_messages) > MAX_WINDOW_SIZE
                     THEN cleanup_old_entries(p1)
                     ELSE p1,
              res |-> TRUE]

\* the state after the call and the value returned
check_message(p, sequence, timestamp, clock) ==
    IF ~is_timestamp_valid(timestamp, clock)
    THEN [st |-> p, res |-> FALSE]
    ELSE IF sequence \in p.seen_messages
    THEN [st |-> p, res |-> FALSE]
    ELSE IF sequence < saturating_sub(p.last_sequence, p.window_size)
    THEN [st |-> p, res |-> FALSE]
    ELSE LET p1 == [p EXCEPT
                       !.seen_messages = @ \cup {sequence},
                       !.last_sequence = IF sequence > @ THEN sequence ELSE @]
         IN  [st |-> IF Cardinality(p1.seen_messages) > MAX_WINDOW_SIZE
                     THEN cleanup_old_entries(p1)
                     ELSE p1,
              res |-> TRUE]

ReplayProtection_reset(p) ==
    [p EXCEPT !.seen_messages = {}, !.last_sequence = 0]

\* the state after check_message(i, clock) for i = lo, lo + 1, ..., hi - 1
RECURSIVE CheckedUpTo(_, _, _, _)
CheckedUpTo(p, lo, hi, clock) ==
    IF p.last_sequence < 0 \/ lo >= hi THEN p
    ELSE IF lo + 1 = hi THEN check_message(p, lo, clock, clock).st
    ELSE LET mid == lo + ((hi - lo) \div 2)
         IN  CheckedUpTo(CheckedUpTo(p, lo, mid, clock), mid, hi, clock)

(***************************************************************************)
(* One ReplayProtection and its caller                                     *)
(***************************************************************************)
VARIABLES
    rp,        \* the ReplayProtection
    pnow,      \* the wall clock, in seconds
    plast,     \* the last call: its arguments, its result, the state it found
    accepted,  \* the sequence numbers accepted since creation or reset
    twice      \* a number was accepted that had been accepted before

pvars == <<rp, pnow, plast, accepted, twice>>

NoCheck ==
    [op |-> "none", sequence |-> 0, timestamp |-> 0, res |-> FALSE,
     before |-> ReplayProtection_new, was_accepted |-> FALSE]

PIdle ==
    /\ rp = ReplayProtection_new
    /\ pnow = T0
    /\ plast = NoCheck
    /\ accepted = {}
    /\ twice = FALSE

(***************************************************************************)
(* One ratchet whose owner sends and rotates                               *)
(***************************************************************************)
VARIABLES
    rnow,     \* the wall clock of the owner of rt, in seconds
    slog,     \* one entry per key next_send_key has returned
    nrot,     \* how many times rotate() has run on rt
    nkey      \* how many times rekey() has run on rt

tvars == <<rnow, slog, nrot, nkey>>

TIdle ==
    /\ rnow = T0
    /\ slog = <<>>
    /\ nrot = 0
    /\ nkey = 0

(***************************************************************************)
(* Byte strings, bincode and the frame format (network/protocol.rs)        *)
(*                                                                         *)
(* A byte string is kept run-length encoded: a sequence of runs <<n, b>>  *)
(* of n >= 1 equal bytes b, adjacent runs differing in b, so that equal    *)
(* byte strings are equal values and a body of one mebibyte is one run.    *)
(***************************************************************************)
MAX_MESSAGE_SIZE == 1048576

READ_BUFFER_SIZE == 8192

\* the largest number the decoders produce: a length field above it is read
\* as Huge, which is above MAX_MESSAGE_SIZE and above every buffer length
Huge == 2000000000

\* the byte-string operators walk a string of up to 8 runs run by run and cut
\* a longer one in two, so that their recursion stays shallow
RECURSIVE BLen(_)
BLen(bs) ==
    IF bs = <<>> THEN 0
    ELSE IF Len(bs) <= 8 THEN bs[1][1] + BLen(Tail(bs))
    ELSE LET h == Len(bs) \div 2
         IN  BLen(SubSeq(bs, 1, h)) + BLen(SubSeq(bs, h + 1, Len(bs)))

RECURSIVE BTake(_, _)
BTake(bs, k) ==
    IF k = 0 \/ bs = <<>> THEN <<>>
    ELSE IF Len(bs) <= 8
    THEN IF bs[1][1] <= k THEN BCat(<<bs[1]>>, BTake(Tail(bs), k - bs[1][1]))
         ELSE <<(<<k, bs[1][2]>>)>>
    ELSE LET h == Len(bs) \div 2
             front == SubSeq(bs, 1, h)
             n == BLen(front)
         IN  IF k <= n THEN BTake(front, k)
             ELSE BCat(front, BTake(SubSeq(bs, h + 1, Len(bs)), k - n))

RECURSIVE BDrop(_, _)
BDrop(bs, k) ==
    IF k = 0 \/ bs = <<>> THEN bs
    ELSE IF Len(bs) <= 8
    THEN IF bs[1][1] <= k THEN BDrop(Tail(bs), k - bs[1][1])
         ELSE <<(<<bs[1][1] - k, bs[1][2]>>)>> \o Tail(bs)
    ELSE LET h == Len(bs) \div 2
             front == SubSeq(bs, 1, h)
             n == BLen(front)
         IN  IF n <= k THEN BDrop(SubSeq(bs, h + 1, Len(bs)), k - n)
             ELSE BDrop(front, k) \o SubSeq(bs, h + 1, Len(bs))

\* data[i], counted from 0
BAt(bs, i) == BDrop(bs, i)[1][2]

RECURSIVE to_be_bytes(_, _)
to_be_bytes(x, w) ==
    IF w = 0 THEN <<>>
    ELSE BCat(to_be_bytes(x \div 256, w - 1), Rep(x % 256, 1))

\* one more byte below hi, or Huge when that is out of range
Shift(lo, hi) == IF hi >= Huge \div 256 THEN Huge ELSE lo + 256 * hi

\* the number in the first w bytes, least significant byte first
RECURSIVE from_le_bytes(_, _)
from_le_bytes(bs, w) ==
    IF w = 0 THEN 0
    ELSE Shift(BAt(bs, 0), from_le_bytes(BDrop(bs, 1), w - 1))

\* the number in the first w bytes, most significant byte first
RECURSIVE from_be_bytes(_, _)
from_be_bytes(bs, w) ==
    IF w = 0 THEN 0
    ELSE Shift(BAt(bs, w - 1), from_be_bytes(bs, w - 1))

\* the order of the variants of MessageType and of MessagePayload: serde
\* writes a variant as its index in the declaration, not as its discriminant
MessageTypes ==
    <<"Handshake", "HandshakeResponse", "EncryptedMessage", "KeyRotation",
      "Ack", "Heartbeat", "Disconnect", "Error">>

PayloadVariants ==
    <<"Handshake", "HandshakeResponse", "EncryptedData", "KeyRotation",
      "Ack", "Heartbeat", "Disconnect", "Error">>

IndexOf(names, name) == CHOOSE i \in DOMAIN names : names[i] = name

\* Vec<u8> and String: a 64-bit length and the bytes
ser_bytes(bs) == BCat(to_le_bytes(BLen(bs), 8), bs)

\* Option<String>: one tag byte and, for Some, the string
ser_option(o) == IF o.some THEN BCat(Rep(1, 1), ser_bytes(o.val)) ELSE Rep(0, 1)

ser_payload(p) ==
    BCat(to_le_bytes(IndexOf(PayloadVariants, p.variant) - 1, 4),
         CASE p.variant = "Handshake" -> ser_bytes(p.public_key)
           [] p.variant = "HandshakeResponse" -> ser_bytes(p.ciphertext)
           [] p.variant = "EncryptedData" ->
                BCat(p.nonce, BCat(ser_bytes(p.ciphertext),
                                   to_le_bytes(p.message_counter, 8)))
           [] p.variant = "KeyRotation" -> to_le_bytes(p.new_key_id, 2)
           [] p.variant = "Ack" -> to_le_bytes(p.message_id, 8)
           [] p.variant = "Heartbeat" -> <<>>
           [] p.variant = "Disconnect" -> ser_option(p.reason)
           [] p.variant = "Error" ->
                BCat(to_le_bytes(p.code, 2), ser_bytes(p.message)))

\* Message::to_bytes: bincode's fixed-width little-endian layout of the five
\* fields in order
Message_to_bytes(m) ==
    BCat(Rep(m.version, 1),
    BCat(to_le_bytes(IndexOf(MessageTypes, m.message_type) - 1, 4),
    BCat(to_le_bytes(m.timestamp, 8),
    BCat(to_le_bytes(m.key_id, 2), ser_payload(m.payload)))))

DeErr == NetErr("SerializationError", "Deserialization failed")

\* Option<String>
None == [some |-> FALSE]

Some(v) == [some |-> TRUE, val |-> v]

\* what F makes of the value that r read, or the error of r
AndThen(r, F(_)) == IF r.ok THEN F(r.val) ELSE r

\* the readers return the value read and the bytes after it
de_int(bs, w) ==
    IF BLen(bs) < w THEN DeErr
    ELSE Ok([val |-> from_le_bytes(bs, w), rest |-> BDrop(bs, w)])

de_bytes(bs) ==
    AndThen(de_int(bs, 8),
            LAMBDA n : IF BLen(n.rest) < n.val THEN DeErr
                       ELSE Ok([val |-> BTake(n.rest, n.val),
                                rest |-> BDrop(n.rest, n.val)]))

\* a String is a Vec<u8> that must be UTF-8; strings are kept to ASCII here,
\* and a byte above 127 is read as a broken encoding
de_string(bs) ==
    AndThen(de_bytes(bs),
            LAMBDA v : IF \E i \in DOMAIN v.val : v.val[i][2] > 127 THEN DeErr
                       ELSE Ok(v))

de_option(bs) ==
    IF BLen(bs) < 1 THEN DeErr
    ELSE IF BAt(bs, 0) = 0 THEN Ok([val |-> None, rest |-> BDrop(bs, 1)])
    ELSE IF BAt(bs, 0) = 1
    THEN AndThen(de_string(BDrop(bs, 1)),
                 LAMBDA s : Ok([val |-> Some(s.val), rest |-> s.rest]))
    ELSE DeErr

\* the fields of a payload of the given variant
de_fields(variant, rest) ==
    CASE variant = "Handshake" ->
            AndThen(de_bytes(rest),
                    LAMBDA k : Ok([variant |-> variant, public_key |-> k.val]))
      [] variant = "HandshakeResponse" ->
            AndThen(de_bytes(rest),
                    LAMBDA c : Ok([variant |-> variant, ciphertext |-> c.val]))
      [] variant = "EncryptedData" ->
            IF BLen(rest) < 24 THEN DeErr
            ELSE AndThen(de_bytes(BDrop(rest, 24)),
                         LAMBDA c :
                            AndThen(de_int(c.rest, 8),
                                    LAMBDA n : Ok([variant |-> variant,
                                                   nonce |-> BTake(rest, 24),
                                                   ciphertext |-> c.val,
                                                   message_counter |-> n.val])))
      [] variant = "KeyRotation" ->
            AndThen(de_int(rest, 2),
                    LAMBDA k : Ok([variant |-> variant, new_key_id |-> k.val]))
      [] variant = "Ack" ->
            AndThen(de_int(rest, 8),
                    LAMBDA k : Ok([variant |-> variant, message_id |-> k.val]))
      [] variant = "Heartbeat" -> Ok([variant |-> variant])
      [] variant = "Disconnect" ->
            AndThen(de_option(rest),
                    LAMBDA o : Ok([variant |-> variant, reason |-> o.val]))
      [] variant = "Error" ->
            AndThen(de_int(rest, 2),
                    LAMBDA c :
                       AndThen(de_string(c.rest),
                               LAMBDA s : Ok([variant |-> variant, code |-> c.val,
                                              message |-> s.val])))

de_payload(bs) ==
    AndThen(de_int(bs, 4),
            LAMBDA tag : IF tag.val >= Len(PayloadVariants) THEN DeErr
                         ELSE de_fields(PayloadVariants[tag.val + 1], tag.rest))

\* Message::from_bytes: bytes after the payload are ignored, as
\* bincode::deserialize does
Message_from_bytes(bytes) ==
    IF BLen(bytes) > MAX_MESSAGE_SIZE
    THEN NetErr("ProtocolError", "Message too large")
    ELSE IF BLen(bytes) < 15 THEN DeErr
    ELSE IF from_le_bytes(BDrop(bytes, 1), 4) >= Len(MessageTypes) THEN DeErr
    ELSE AndThen(de_payload(BDrop(bytes, 15)),
                 LAMBDA p :
                    Ok([version |-> BAt(bytes, 0),
                        message_type |->
                            MessageTypes[from_le_bytes(BDrop(bytes, 1), 4) + 1],
                        timestamp |-> from_le_bytes(BDrop(bytes, 5), 8),
                        key_id |-> from_le_bytes(BDrop(bytes, 13), 2),
                        payload |-> p]))

\* frame_message: the 4-byte big-endian length of the body, then the body;
\* no length is refused here, and lengths stay below 2^31 in this model,
\* where `as u32` changes nothing
frame_message(message) ==
    Ok(BCat(to_be_bytes(BLen(Message_to_bytes(message)), 4),
            Message_to_bytes(message)))

\* a parse_framed_message that looks at the body before the declared length
parse_framed_message_BodyFirst(data) ==
    IF BLen(data) < 4
    THEN NetErr("ProtocolError", "Insufficient data for frame header")
    ELSE IF BLen(data) < 4 + from_be_bytes(data, 4)
    THEN NetErr("ProtocolError", "Incomplete message frame")
    ELSE IF from_be_bytes(data, 4) > MAX_MESSAGE_SIZE
    THEN NetErr("ProtocolError", "Message too large")
    ELSE AndThen(Message_from_bytes(BTake(BDrop(data, 4), from_be_bytes(data, 4))),
                 LAMBDA m : Ok([message |-> m,
                                consumed |-> 4 + from_be_bytes(data, 4)]))

\* mutant: a parsed frame takes everything the buffer holds with it
parse_framed_message_ConsumeAll(data) ==
    IF BLen(data) < 4
    THEN NetErr("ProtocolError", "Insufficient data for frame header")
    ELSE IF from_be_bytes(data, 4) > MAX_MESSAGE_SIZE
    THEN NetErr("ProtocolError", "Message too large")
    ELSE IF BLen(data) < 4 + from_be_bytes(data, 4)
    THEN NetErr("ProtocolError", "Incomplete message frame")
    ELSE AndThen(Message_from_bytes(BTake(BDrop(data, 4), from_be_bytes(data, 4))),
                 LAMBDA m : Ok([message |-> m, consumed |-> BLen(data)]))

parse_framed_message(data) ==
    IF BLen(data) < 4
    THEN NetErr("ProtocolError", "Insufficient data for frame header")
    ELSE IF from_be_bytes(data, 4) > MAX_MESSAGE_SIZE
    THEN NetErr("ProtocolError", "Message too large")
    ELSE IF BLen(data) < 4 + from_be_bytes(data, 4)
    THEN NetErr("ProtocolError", "Incomplete message frame")
    ELSE AndThen(Message_from_bytes(BTake(BDrop(data, 4), from_be_bytes(data, 4))),
                 LAMBDA m : Ok([message |-> m,
                                consumed |-> 4 + from_be_bytes(data, 4)]))

\* Message::disconnect and Message::error
Message_disconnect(reason, now) ==
    Message_new("Disconnect", [variant |-> "Disconnect", reason |-> reason], now)

Message_error(code, message, now) ==
    Message_new("Error", [variant |-> "Error", code |-> code, message |-> message], now)

(***************************************************************************)
(* One Connection reading what its peer writes (network/connection.rs)     *)
(***************************************************************************)
VARIABLES
    buffer,   \* Connection.buffer: bytes read and not yet consumed
    stream,   \* bytes the peer has written that no read has returned yet
    closed,   \* the peer has closed its side of the stream
    cpc,      \* where recv_message stands: "idle", "parse" or "read"
    cres,     \* what the last recv_message returned
    iter,     \* the last pass of recv_message's loop over the buffer
    round,    \* the last message framed and parsed back
    nwrite    \* how many times the peer has written

fvars == <<buffer, stream, closed, cpc, cres, iter, round, nwrite>>

\* recv_message has not returned
NoResult == NetErr("None", "not returned")

NoIter == [op |-> "none", data |-> <<>>, more |-> FALSE, res |-> NoResult]

FIdle ==
    /\ buffer = <<>>
    /\ stream = <<>>
    /\ closed = FALSE
    /\ cpc = "idle"
    /\ cres = NoResult
    /\ iter = NoIter
    /\ round = [op |-> "none"]
    /\ nwrite = 0

(***************************************************************************)
(* What a peer has sent through send_message and what recv_message has     *)
(* returned                                                                *)
(***************************************************************************)
VARIABLES
    written,   \* the messages the peer has passed to send_message, in order
    inflight,  \* bytes of their frames the transport has not delivered yet
    returned   \* the messages recv_message has returned, in order

hvars == <<written, inflight, returned>>

HIdle ==
    /\ written = <<>>
    /\ inflight = <<>>
    /\ returned = <<>>

\* the variables of the components modelled after the ratchet owner and the
\* replay window
evars == <<fvars, hvars>>

EIdle == FIdle /\ HIdle

\* the variables of the components that stand apart from the ratchet rt of
\* the receive runs and from the sessions
ovars == <<tvars, pvars, evars>>

OIdle == TIdle /\ PIdle /\ EIdle

vars == <<rvars, svars, ovars>>

\* the endpoints before any handshake call has begun, with the clocks skew0
SIdle(skew0) ==
    /\ time = 0
    /\ skew = skew0
    /\ pc = [e \in Ends |-> IF e = "I" THEN "start" ELSE "wait"]
    /\ since = [e \in Ends |-> 0]
    /\ hsres = [e \in Ends |-> Ok("none")]
    /\ keypair = <<>>
    /\ wire = [e \in Ends |-> <<>>]
    /\ sess = [e \in {} |-> 0]
    /\ sent = [e \in Ends |-> <<>>]
    /\ rcvd = [e \in Ends |-> <<>>]
    /\ rots = [e \in Ends |-> <<>>]
    /\ tampers = 0

NoCall == [op |-> "none", c |-> 0, res |-> Ok(0), cached |-> FALSE, gap |-> 0]

RInit ==
    /\ rt0 \in {RatchetState_new(RootKey("rootA"), T0),
                RatchetState_new_responder(RootKey("rootA"), T0)}
    /\ rt = rt0
    /\ rlast = NoCall
    /\ requested = {}
    /\ repeated = FALSE
    /\ failed = FALSE
    /\ SIdle([e \in Ends |-> 0])
    /\ OIdle

\* the counters a caller passes: small ones and, while recv_counter is small,
\* the two around the skip limit
RecvInputs ==
    (0 .. MaxCtr)
    \cup (IF rt.recv_counter <= MaxCtr
          THEN {rt.recv_counter + MAX_SKIP, rt.recv_counter + MAX_SKIP + 1}
          ELSE {})

\* a caller that only receives, on a fresh ratchet
RecvOnly ==
    \E c \in RecvInputs :
        LET out == get_recv_key(rt, c)
        IN  /\ rt' = out.st
            /\ rlast' = [op |-> "get_recv_key", c |-> c, res |-> out.res,
                         cached |-> c \in DOMAIN rt.skipped_message_keys,
                         gap |-> c - rt.recv_counter]
            /\ requested' = requested \cup {c}
            /\ repeated' = (repeated \/ c \in requested)
            /\ failed' = (failed \/ ~out.res.ok)
            /\ UNCHANGED <<rt0, svars, ovars>>

SpecRecv == RInit /\ [][RecvOnly]_vars

(***************************************************************************)
(* Strictly in-order receipt, the reference of the out-of-order claims     *)
(***************************************************************************)
\* the ratchet r after get_recv_key(recv_counter), get_recv_key(recv_counter+1),
\* ... up to but excluding counter n, each call made on the result of the last
\* (the calls are grouped in halves to keep the evaluation shallow)
RECURSIVE InOrderUpTo(_, _)
InOrderUpTo(r, n) ==
    IF r.recv_counter >= n THEN r
    ELSE IF r.recv_counter + 1 = n THEN get_recv_key(r, r.recv_counter).st
    ELSE InOrderUpTo(
            InOrderUpTo(r, r.recv_counter + ((n - r.recv_counter) \div 2)), n)

\* the key strictly in-order calls 0, 1, ..., c return for counter c
InOrderKey(r0, c) == get_recv_key(InOrderUpTo(r0, c), c).res

\* C4: on a fresh ratchet, as long as every counter is requested at most once
\* and all of them are at most MAX_SKIP (a prefix of a permutation of 0..n,
\* n <= MAX_SKIP), each call returns the key that the in-order calls
\* 0, 1, ..., c return for that counter c.
C4_AnyOrderSameKeys ==
    (rlast.op = "get_recv_key" /\ ~repeated /\ requested \subseteq 0 .. MAX_SKIP)
        => rlast.res = InOrderKey(rt0, rlast.c)

\* counter 0 is served last, out of the cache, after all of 1..MaxCtr
C4_Witness ==
    /\ rlast.op = "get_recv_key" /\ rlast.c = 0 /\ rlast.cached
    /\ ~repeated /\ requested = 0 .. MaxCtr
    /\ rlast.res = InOrderKey(rt0, 0)

\* C5: once every counter of 0..n has been requested exactly once, in any
\* order, every call has succeeded, the skipped-key cache is empty and
\* recv_counter = n + 1.
C5_SkippedRecovery ==
    LET n == Cardinality(requested) - 1
    IN  (~repeated /\ requested # {} /\ requested = 0 .. n)
            => /\ ~failed
               /\ DOMAIN rt.skipped_message_keys = {}
               /\ rt.recv_counter = n + 1

\* the highest counter came before the last one, which was skipped by then
C5_Witness ==
    /\ ~repeated /\ requested = 0 .. MaxCtr
    /\ rlast.cached /\ rlast.c = MaxCtr - 1
    /\ DOMAIN rt.skipped_message_keys = {}
    /\ rt.recv_counter = MaxCtr + 1

\* C7: get_recv_key(c) with c below recv_counter and c not in the skipped-key
\* cache fails with MessageKeyNotFound.
C7_ReplayedCounterRejected ==
    (rlast.op = "get_recv_key" /\ rlast.gap < 0 /\ ~rlast.cached)
        => rlast.res = Err("MessageKeyNotFound")

\* C8: get_recv_key(c) fails with TooManySkippedMessages exactly when c is not
\* cached and c - recv_counter > MAX_SKIP, and a failing call changes nothing
\* of the ratchet.
C8_TooManySkipped ==
    [][ /\ (rlast'.res = Err("TooManySkippedMessages"))
             <=> (~rlast'.cached /\ rlast'.gap > MAX_SKIP)
        /\ ~rlast'.res.ok => rt' = rt ]_vars

\* a call MAX_SKIP + 1 ahead has failed on a ratchet that holds skipped keys
C8_Witness ==
    /\ rlast.res = Err("TooManySkippedMessages")
    /\ rlast.gap = MAX_SKIP + 1
    /\ DOMAIN rt.skipped_message_keys # {}
    /\ rt.recv_counter > 0

\* a call exactly MAX_SKIP ahead has succeeded
C8_WitnessAtLimit ==
    rlast.res.ok /\ rlast.gap = MAX_SKIP /\ ~rlast.cached

\* C9: the skipped-key cache never holds more than MAX_SKIP entries.
C9_CacheAtMostMaxSkip ==
    Cardinality(DOMAIN rt.skipped_message_keys) <= MAX_SKIP

(***************************************************************************)
(* session.rs: the handshake and the encrypted exchange                    *)
(***************************************************************************)
\* the wall clock of endpoint e, in seconds
now(e) == T0 + time + skew[e]

\* a connect that derives the master key under another salt
Session_connect_finish_OtherSalt(kp, response, clock) ==
    LET v == validate(response, clock)
    IN  IF ~v.ok THEN v
        ELSE LET shared_secret == decapsulate(kp, response.payload.ciphertext)
                 master_key == derive_master_key(shared_secret, "aegis-v2-salt")
             IN  Ok([ratchet |-> RatchetState_new(master_key, clock),
                     established |-> TRUE,
                     role |-> "Initiator"])

\* Session::connect from the frame it waited for to its return
Session_connect_finish(kp, response, clock) ==
    LET v == validate(response, clock)
    IN  IF ~v.ok THEN v
        ELSE IF response.message_type # "HandshakeResponse"
        THEN NetErr("ProtocolError", "Expected handshake response")
        ELSE IF response.payload.variant # "HandshakeResponse"
        THEN NetErr("ProtocolError", "Invalid handshake response payload")
        ELSE LET ct == Ciphertext_from_bytes(response.payload.ciphertext)
             IN  IF ~ct.ok
                 THEN NetErr("ProtocolError", "Invalid ciphertext")
                 ELSE LET shared_secret == decapsulate(kp, ct.val)
                          master_key == derive_master_key(shared_secret, "aegis-v1-salt")
                      IN  Ok([ratchet |-> RatchetState_new(master_key, clock),
                              established |-> TRUE,
                              role |-> "Initiator"])

\* an accept that takes the public key bytes whatever their length
Session_accept_AnyLength(handshake, clock, rnd) ==
    LET v == validate(handshake, clock)
    IN  IF ~v.ok THEN [res |-> v, out |-> <<>>]
        ELSE IF handshake.message_type # "Handshake"
        THEN [res |-> NetErr("ProtocolError", "Expected handshake"), out |-> <<>>]
        ELSE LET kem == encapsulate(handshake.payload.public_key, rnd)
                 master_key ==
                     derive_master_key(kem.shared_secret, "aegis-v1-salt")
             IN  [res |-> Ok([ratchet |->
                                 RatchetState_new_responder(master_key, clock),
                              established |-> TRUE,
                              role |-> "Responder"]),
                  out |-> <<Message_handshake_response(kem.ciphertext, clock)>>]

\* Session::accept from the frame it waited for to its return: the result and
\* the frames written
Session_accept(handshake, clock, rnd) ==
    LET v == validate(handshake, clock)
    IN  IF ~v.ok THEN [res |-> v, out |-> <<>>]
        ELSE IF handshake.message_type # "Handshake"
        THEN [res |-> NetErr("ProtocolError", "Expected handshake"), out |-> <<>>]
        ELSE IF handshake.payload.variant # "Handshake"
        THEN [res |-> NetErr("ProtocolError", "Invalid handshake payload"),
              out |-> <<>>]
        ELSE LET pk == PublicKey_from_bytes(handshake.payload.public_key)
             IN  IF ~pk.ok
                 THEN [res |-> NetErr("ProtocolError", "Invalid public key"),
                       out |-> <<>>]
                 ELSE LET kem == encapsulate(pk.val, rnd)
                          master_key ==
                              derive_master_key(kem.shared_secret, "aegis-v1-salt")
                      IN  [res |-> Ok([ratchet |->
                                          RatchetState_new_responder(master_key, clock),
                                       established |-> TRUE,
                                       role |-> "Responder"]),
                           out |-> <<Message_handshake_response(kem.ciphertext, clock)>>]

\* a send that does not look at established
Session_send_NoCheck(s, plaintext, clock, nonce) ==
    LET k == next_send_key(s.ratchet, clock)
        encrypted == encrypt_simple(k.key, plaintext, nonce)
    IN  [st |-> [s EXCEPT !.ratchet = k.st],
         res |-> Ok("sent"),
         out |-> <<Message_encrypted(encrypted.nonce, encrypted.ciphertext,
                                     k.counter, 0, clock)>>]

\* Session::send: the session after the call, the result and the frames written
Session_send(s, plaintext, clock, nonce) ==
    IF ~s.established
    THEN [st |-> s, res |-> NetErr("ConnectionError", "Session not established"),
          out |-> <<>>]
    ELSE LET k == next_send_key(s.ratchet, clock)
             encrypted == encrypt_simple(k.key, plaintext, nonce)
         IN  [st |-> [s EXCEPT !.ratchet = k.st],
              res |-> Ok("sent"),
              out |-> <<Message_encrypted(encrypted.nonce, encrypted.ciphertext,
                                          k.counter, 0, clock)>>]

\* a Heartbeat arm that answers nothing
recv_Heartbeat_Silent(s, clock) == [st |-> s, res |-> Ok(""), out |-> <<>>]

\* the Heartbeat arm of recv: a Heartbeat is written back
recv_Heartbeat(s, clock) ==
    [st |-> s, res |-> Ok(""), out |-> <<Message_heartbeat(clock)>>]

\* a Disconnect arm that leaves the session established
recv_Disconnect_StaysUp(s) ==
    [st |-> s, res |-> NetErr("ConnectionError", "Peer disconnected"), out |-> <<>>]

\* the Disconnect arm of recv
recv_Disconnect(s) ==
    [st |-> [s EXCEPT !.established = FALSE],
     res |-> NetErr("ConnectionError", "Peer disconnected"),
     out |-> <<>>]

\* mutant: a frame of a type recv does not handle ends the session
Session_recv_StrayCloses(s, msg, clock) ==
    LET v == validate(msg, clock)
    IN  IF ~v.ok THEN [st |-> s, res |-> v, out |-> <<>>]
        ELSE IF msg.message_type = "EncryptedMessage"
        THEN IF msg.payload.variant # "EncryptedData"
             THEN [st |-> s,
                   res |-> NetErr("ProtocolError", "Invalid encrypted message payload"),
                   out |-> <<>>]
             ELSE LET k == get_recv_key(s.ratchet, msg.payload.message_counter)
                  IN  IF ~k.res.ok
                      THEN [st |-> [s EXCEPT !.ratchet = k.st],
                            res |-> NetErr("ConnectionError", "Key retrieval failed"),
                            out |-> <<>>]
                      ELSE LET plaintext ==
                                   decrypt_simple(k.res.val,
                                                  [nonce |-> msg.payload.nonce,
                                                   ciphertext |-> msg.payload.ciphertext])
                           IN  [st |-> [s EXCEPT !.ratchet = k.st],
                                res |-> IF plaintext.ok THEN plaintext
                                        ELSE NetErr("ConnectionError", "Decryption failed"),
                                out |-> <<>>]
        ELSE IF msg.message_type = "Heartbeat"
        THEN recv_Heartbeat(s, clock)
        ELSE IF msg.message_type = "Disconnect"
        THEN recv_Disconnect(s)
        ELSE [st |-> [s EXCEPT !.established = FALSE],
              res |-> NetErr("ProtocolError", "Unexpected message type"),
              out |-> <<>>]

\* Session::recv once connection.recv_message has returned msg: the session
\* after the call, the result and the frames written
Session_recv(s, msg, clock) ==
    LET v == validate(msg, clock)
    IN  IF ~v.ok THEN [st |-> s, res |-> v, out |-> <<>>]
        ELSE IF msg.message_type = "EncryptedMessage"
        THEN IF msg.payload.variant # "EncryptedData"
             THEN [st |-> s,
                   res |-> NetErr("ProtocolError", "Invalid encrypted message payload"),
                   out |-> <<>>]
             ELSE LET k == get_recv_key(s.ratchet, msg.payload.message_counter)
                  IN  IF ~k.res.ok
                      THEN [st |-> [s EXCEPT !.ratchet = k.st],
                            res |-> NetErr("ConnectionError", "Key retrieval failed"),
                            out |-> <<>>]
                      ELSE LET plaintext ==
                                   decrypt_simple(k.res.val,
                                                  [nonce |-> msg.payload.nonce,
                                                   ciphertext |-> msg.payload.ciphertext])
                           IN  [st |-> [s EXCEPT !.ratchet = k.st],
                                res |-> IF plaintext.ok THEN plaintext
                                        ELSE NetErr("ConnectionError", "Decryption failed"),
                                out |-> <<>>]
        ELSE IF msg.message_type = "Heartbeat"
        THEN recv_Heartbeat(s, clock)
        ELSE IF msg.message_type = "Disconnect"
        THEN recv_Disconnect(s)
        ELSE [st |-> s, res |-> NetErr("ProtocolError", "Unexpected message type"),
              out |-> <<>>]

\* the ratchet variables while the sessions run: one idle ratchet
RIdle ==
    /\ rt0 = RatchetState_new(RootKey("rootA"), T0)
    /\ rt = rt0
    /\ rlast = NoCall
    /\ requested = {}
    /\ repeated = FALSE
    /\ failed = FALSE

\* at most one of the two clocks is ahead
SInit ==
    /\ RIdle
    /\ OIdle
    /\ \E skew0 \in [Ends -> Skews] :
          /\ \E e \in Ends : skew0[e] = 0
          /\ SIdle(skew0)

\* Session::connect up to its wait for the response
Connect ==
    /\ pc["I"] = "start"
    /\ LET kp == KeyPair_generate("kp")
       IN  /\ keypair' = <<kp>>
           /\ wire' = [wire EXCEPT !["R"] =
                          Append(@, Message_handshake(kp.public, now("I")))]
    /\ pc' = [pc EXCEPT !["I"] = "wait"]
    /\ since' = [since EXCEPT !["I"] = time]
    /\ UNCHANGED <<rvars, ovars, time, skew, hsres, sess, sent, rcvd, rots, tampers>>

\* Session::connect from the arrival of the response
ConnectFinish ==
    /\ pc["I"] = "wait"
    /\ wire["I"] # <<>>
    /\ LET res == Session_connect_finish(keypair[1], Head(wire["I"]), now("I"))
       IN  /\ pc' = [pc EXCEPT !["I"] = IF res.ok THEN "done" ELSE "err"]
           /\ hsres' = [hsres EXCEPT !["I"] = IF res.ok THEN @ ELSE res]
           /\ sess' = IF res.ok THEN ("I" :> res.val) @@ sess ELSE sess
    /\ wire' = [wire EXCEPT !["I"] = Tail(@)]
    /\ UNCHANGED <<rvars, ovars, time, skew, since, keypair, sent, rcvd, rots, tampers>>

\* Session::accept from the arrival of the handshake
Accept ==
    /\ pc["R"] = "wait"
    /\ wire["R"] # <<>>
    /\ LET a == Session_accept(Head(wire["R"]), now("R"), "rnd")
       IN  /\ pc' = [pc EXCEPT !["R"] = IF a.res.ok THEN "done" ELSE "err"]
           /\ hsres' = [hsres EXCEPT !["R"] = IF a.res.ok THEN @ ELSE a.res]
           /\ sess' = IF a.res.ok THEN ("R" :> a.res.val) @@ sess ELSE sess
           /\ wire' = [wire EXCEPT !["R"] = Tail(@), !["I"] = @ \o a.out]
    /\ UNCHANGED <<rvars, ovars, time, skew, since, keypair, sent, rcvd, rots, tampers>>

\* the wait of e for its handshake frame has lasted HANDSHAKE_TIMEOUT
Expired(e) ==
    /\ pc[e] = "wait"
    /\ wire[e] = <<>>
    /\ time >= since[e] + HANDSHAKE_TIMEOUT

\* a timeout(...) that starts the wait again when the timer fires
HandshakeTimeout_Retry(e) ==
    /\ Expired(e)
    /\ since[e] < ROTATION_INTERVAL_SECS
    /\ since' = [since EXCEPT ![e] = time]
    /\ UNCHANGED <<rvars, ovars, time, skew, pc, hsres, keypair, wire, sess, sent,
                   rcvd, rots, tampers>>

\* timeout(HANDSHAKE_TIMEOUT, connection.recv_message()) elapses
HandshakeTimeout(e) ==
    /\ Expired(e)
    /\ pc' = [pc EXCEPT ![e] = "err"]
    /\ hsres' = [hsres EXCEPT ![e] = NetErr("Timeout", "Timeout")]
    /\ UNCHANGED <<rvars, ovars, time, skew, since, keypair, wire, sess, sent, rcvd,
                   rots, tampers>>

\* connection.recv_message reads end of stream: the peer's call failed and
\* dropped its Connection
HandshakeEof(e) ==
    /\ pc[e] = "wait"
    /\ wire[e] = <<>>
    /\ pc[Peer(e)] = "err"
    /\ pc' = [pc EXCEPT ![e] = "err"]
    /\ hsres' = [hsres EXCEPT ![e] =
                    NetErr("ConnectionError",
                           "Handshake failed: Connection closed by peer")]
    /\ UNCHANGED <<rvars, ovars, time, skew, since, keypair, wire, sess, sent, rcvd,
                   rots, tampers>>

\* time passes, but not past a handshake timer
Tick ==
    /\ \A e \in Ends : ~Expired(e)
    /\ \E t \in TimePoints : t > time /\ time' = t
    /\ UNCHANGED <<rvars, ovars, skew, pc, since, hsres, keypair, wire, sess, sent,
                   rcvd, rots, tampers>>

\* the entry of rots for a rotate() that ran on ratchet r and left r2
RotEntry(r, r2, auto) ==
    [ts |-> r2.last_rotation, sc |-> r.send_counter, rc |-> r.recv_counter,
     auto |-> auto]

\* how many rotate() calls the owner of the session of e has made
ExplicitRotations(e) ==
    Cardinality({i \in DOMAIN rots[e] : ~rots[e][i].auto})

\* the owner of the session of e calls send(p)
Send(e, p) ==
    /\ e \in DOMAIN sess
    /\ Len(sent["I"]) + Len(sent["R"]) < MaxSend
    /\ LET s == sess[e]
           out == Session_send(s, p, now(e), <<e, Len(sent[e])>>)
           rotated == out.st.ratchet.last_rotation # s.ratchet.last_rotation
           rots2 == IF rotated
                    THEN Append(rots[e], RotEntry(s.ratchet, out.st.ratchet, TRUE))
                    ELSE rots[e]
       IN  /\ out.res.ok
           /\ sess' = [sess EXCEPT ![e] = out.st]
           /\ wire' = [wire EXCEPT ![Peer(e)] = @ \o out.out]
           /\ rots' = [rots EXCEPT ![e] = rots2]
           /\ sent' = [sent EXCEPT ![e] =
                          Append(@, [pt |-> p,
                                     key |-> out.out[1].payload.ciphertext.key,
                                     counter |-> out.out[1].payload.message_counter,
                                     rots |-> rots2,
                                     peer_rots |-> rots[Peer(e)]])]
    /\ UNCHANGED <<rvars, ovars, time, skew, pc, since, hsres, keypair, rcvd, tampers>>

\* what get_recv_key returned to the recv call that read msg, if it was called
RecvKeyOf(s, msg, clock) ==
    IF validate(msg, clock).ok /\ msg.message_type = "EncryptedMessage"
          /\ msg.payload.variant = "EncryptedData"
    THEN get_recv_key(s.ratchet, msg.payload.message_counter).res
    ELSE Err("NotCalled")

\* the owner of the session of e calls recv() and a frame is there
Recv(e) ==
    /\ e \in DOMAIN sess
    /\ sess[e].established
    /\ wire[e] # <<>>
    /\ LET msg == Head(wire[e])
           out == Session_recv(sess[e], msg, now(e))
       IN  /\ sess' = [sess EXCEPT ![e] = out.st]
           /\ wire' = [wire EXCEPT ![e] = Tail(@), ![Peer(e)] = @ \o out.out]
           /\ rcvd' = [rcvd EXCEPT ![e] =
                          Append(@, [msg |-> msg,
                                     res |-> out.res,
                                     keyres |-> RecvKeyOf(sess[e], msg, now(e)),
                                     established |-> out.st.established,
                                     recv_counter |-> out.st.ratchet.recv_counter,
                                     rots |-> rots[e]])]
    /\ UNCHANGED <<rvars, ovars, time, skew, pc, since, hsres, keypair, sent, rots,
                   tampers>>

\* the owner of the session of e calls session.ratchet.rotate()
Rotate(e) ==
    /\ e \in DOMAIN sess
    /\ ExplicitRotations(e) < MaxRotate
    /\ LET r2 == rotate(sess[e].ratchet, now(e))
       IN  /\ sess' = [sess EXCEPT ![e].ratchet = r2]
           /\ rots' = [rots EXCEPT ![e] =
                          Append(@, RotEntry(sess[e].ratchet, r2, FALSE))]
    /\ UNCHANGED <<rvars, ovars, time, skew, pc, since, hsres, keypair, wire, sent,
                   rcvd, tampers>>

\* one bit of the ciphertext of a frame on its way to e is flipped
Tamper(e) ==
    /\ tampers < MaxTamper
    /\ \E i \in DOMAIN wire[e] :
          /\ wire[e][i].message_type = "EncryptedMessage"
          /\ ~wire[e][i].payload.ciphertext.flipped
          /\ wire' = [wire EXCEPT ![e][i].payload.ciphertext.flipped = TRUE]
    /\ tampers' = tampers + 1
    /\ UNCHANGED <<rvars, ovars, time, skew, pc, since, hsres, keypair, sess, sent,
                   rcvd, rots>>

HandshakeNext ==
    \/ Connect
    \/ ConnectFinish
    \/ Accept
    \/ \E e \in Ends : HandshakeTimeout(e)
    \/ \E e \in Ends : HandshakeEof(e)
    \/ Tick

ExchangeNext ==
    \/ HandshakeNext
    \/ \E e \in Ends : \E p \in Plain : Send(e, p)
    \/ \E e \in Ends : Recv(e)

SessionNext ==
    \/ ExchangeNext
    \/ \E e \in Ends : Rotate(e)
    \/ \E e \in Ends : Tamper(e)

\* the two owners only send and receive
SpecExchange == SInit /\ [][ExchangeNext]_vars

\* the owners also rotate, and frames are tampered with in transit
SpecSession == SInit /\ [][SessionNext]_vars

\* the handshake alone; each call runs on once its frame is there
SpecHandshake ==
    /\ SInit
    /\ [][HandshakeNext]_vars
    /\ WF_vars(Connect)
    /\ WF_vars(ConnectFinish)
    /\ WF_vars(Accept)
    /\ \A e \in Ends : WF_vars(HandshakeTimeout(e))
    /\ \A e \in Ends : WF_vars(HandshakeEof(e))

(***************************************************************************)
(* The claims about the paired ratchets and the sessions                   *)
(***************************************************************************)
\* the k-th frame e has read and the k-th message its peer has sent
SentTo(e, k) == sent[Peer(e)][k]

Flipped(msg) ==
    msg.message_type = "EncryptedMessage" /\ msg.payload.ciphertext.flipped

\* the k-th frame e has read passed validate and went on to get_recv_key
Validated(e, k) == rcvd[e][k].keyres # Err("NotCalled")

\* C1: with the initiator's ratchet made by RatchetState::new and the
\* responder's by RatchetState::new_responder from one root key, and no
\* rotation on either ratchet, the key next_send_key returned with counter n
\* on one side is the key get_recv_key(n) returns on the other side when the
\* counters arrive in order 0, 1, 2, ..., in both directions.
C1_PairedChains ==
    \A e \in Ends : \A k \in DOMAIN rcvd[e] :
        (Validated(e, k) /\ SentTo(e, k).rots = <<>> /\ rcvd[e][k].rots = <<>>)
            => /\ SentTo(e, k).counter = k - 1
               /\ rcvd[e][k].msg.payload.message_counter = k - 1
               /\ rcvd[e][k].keyres = Ok(SentTo(e, k).key)

\* a message has gone each way and no ratchet has rotated
C1_Witness ==
    /\ \A e \in Ends : Len(rcvd[e]) = 1 /\ Validated(e, 1) /\ rots[e] = <<>>
    /\ sess["I"].ratchet.root_key = sess["R"].ratchet.root_key

\* every frame e has read so far passed validate
AllValidated(e) == \A k \in DOMAIN rcvd[e] : Validated(e, k)

\* C2: over the reliable in-order stream, when no owner calls rotate() and
\* every frame passes validate, the k-th recv of the receiver returns the
\* plaintext of the k-th send of the sender, and after n such messages the
\* receiver's recv_counter is n.
C2_InOrderDelivery ==
    \A e \in Ends : \A k \in DOMAIN rcvd[e] :
        (AllValidated(e) /\ \A x \in Ends : ExplicitRotations(x) = 0)
            => /\ rcvd[e][k].res = Ok(SentTo(e, k).pt)
               /\ rcvd[e][k].recv_counter = k

\* C2, as far as it goes: the messages sent while no ratchet had rotated are
\* returned in order, byte for byte
C2_BeforeAnyRotation ==
    \A e \in Ends : \A k \in DOMAIN rcvd[e] :
        (AllValidated(e) /\ SentTo(e, k).rots = <<>> /\ rcvd[e][k].rots = <<>>)
            => /\ rcvd[e][k].res = Ok(SentTo(e, k).pt)
               /\ rcvd[e][k].recv_counter = k

\* C6: a recv that reads an EncryptedMessage of which a ciphertext bit was
\* flipped in transit returns the decryption failure and leaves the session
\* with established = FALSE.
C6_AeadFailureFatal ==
    \A e \in Ends : \A k \in DOMAIN rcvd[e] :
        Flipped(rcvd[e][k].msg)
            => /\ ~rcvd[e][k].res.ok
               /\ rcvd[e][k].res.err.kind = "ConnectionError"
               /\ ~rcvd[e][k].established

\* the rotations of the sender and of the receiver of a message were
\* coordinated: each rotate() was called by its owner, both ran before the
\* message was sent and none between its send and its receipt, at least one
\* ran, the i-th of the one and the i-th of the other ran with the same
\* messages sent and received, and a message had gone before them
Coordinated(s, r) ==
    /\ s.rots # <<>>
    /\ Len(s.rots) = Len(s.peer_rots)
    /\ r.rots = s.peer_rots
    /\ \A i \in DOMAIN s.rots :
          /\ ~s.rots[i].auto
          /\ ~s.peer_rots[i].auto
          /\ s.rots[i].sc = s.peer_rots[i].rc
          /\ s.rots[i].rc = s.peer_rots[i].sc
    /\ s.rots[1].sc + s.rots[1].rc >= 1

\* the keys of every message sent before the rotations of s
KeysBefore(e, s) ==
    {sent[x][j].key : <<x, j>> \in
        {y \in Ends \X (1 .. MaxSend + 1) :
            /\ y[2] \in DOMAIN sent[y[1]]
            /\ sent[y[1]][y[2]].rots = <<>>}}

\* C10: when both peers call rotate() after message 1 was sent and received
\* and before message 2 is sent, message 2 decrypts at the receiver, and its
\* key differs from the key of message 1.
C10_CoordinatedRotation ==
    \A e \in Ends : \A k \in DOMAIN rcvd[e] :
        (/\ Coordinated(SentTo(e, k), rcvd[e][k])
         /\ AllValidated(e)
         /\ ~Flipped(rcvd[e][k].msg))
            => /\ rcvd[e][k].res = Ok(SentTo(e, k).pt)
               /\ SentTo(e, k).key \notin KeysBefore(e, SentTo(e, k))

\* C10, as far as it goes: it holds when the two rotate() calls read the same
\* second
C10_SameSecond ==
    \A e \in Ends : \A k \in DOMAIN rcvd[e] :
        (/\ Coordinated(SentTo(e, k), rcvd[e][k])
         /\ AllValidated(e)
         /\ ~Flipped(rcvd[e][k].msg)
         /\ \A i \in DOMAIN rcvd[e][k].rots :
               rcvd[e][k].rots[i].ts = SentTo(e, k).rots[i].ts)
            => /\ rcvd[e][k].res = Ok(SentTo(e, k).pt)
               /\ SentTo(e, k).key \notin KeysBefore(e, SentTo(e, k))

\* a message was received after coordinated rotations in the same second
C10_SameSecondWitness ==
    \E e \in Ends : \E k \in DOMAIN rcvd[e] :
        /\ Coordinated(SentTo(e, k), rcvd[e][k])
        /\ rcvd[e][k].rots[1].ts = SentTo(e, k).rots[1].ts
        /\ rcvd[e][k].res.ok

(***************************************************************************)
(* The claims about the handshake                                          *)
(***************************************************************************)
\* neither wall clock is more than max_skew ahead of the other
WithinSkew == \A e \in Ends : skew[e] <= skew[Peer(e)] + MAX_SKEW_SECS

RoleOf(e) == IF e = "I" THEN "Initiator" ELSE "Responder"

Returned(e) == pc[e] \in {"done", "err"}

TimedOut(e) == pc[e] = "err" /\ hsres[e] = NetErr("Timeout", "Timeout")

PeerClosed(e) ==
    /\ pc[e] = "err"
    /\ hsres[e] = NetErr("ConnectionError",
                         "Handshake failed: Connection closed by peer")

FromTheFuture(e) ==
    /\ pc[e] = "err"
    /\ hsres[e] = NetErr("ProtocolError", "Timestamp too far in the future")

\* C3, as the specification words it: with every frame delivered, no
\* handshake call turns down the frame it was waiting for, so that both calls
\* return an established Session.
C3_BothEstablish ==
    \A e \in Ends : Returned(e) /\ ~TimedOut(e) /\ ~TimedOut(Peer(e))
                        => pc[e] = "done"

\* what holds of the handshake in every state
C3_Safe ==
    /\ \A e \in Ends :
          pc[e] = "done" <=> (/\ e \in DOMAIN sess
                              /\ sess[e].established
                              /\ sess[e].role = RoleOf(e))
    /\ (\A e \in Ends : pc[e] = "done")
          => sess["I"].ratchet.root_key = sess["R"].ratchet.root_key
    /\ (\/ pc["I"] = "done"
        \/ \E i \in DOMAIN wire["I"] :
              wire["I"][i].message_type = "HandshakeResponse")
          => pc["R"] = "done"
    /\ \A e \in Ends :
          pc[e] = "err" => \/ TimedOut(e)
                           \/ PeerClosed(e) /\ pc[Peer(e)] = "err"
                           \/ FromTheFuture(e) /\ ~WithinSkew

\* C3: when Session::connect and Session::accept run on the two ends of a
\* reliable stream, both calls eventually return; a call that returns a
\* Session returns it established, with role Initiator from connect and
\* Responder from accept, and when both do the two ratchets have the same root
\* key; the HandshakeResponse is written only once accept has read the
\* Handshake; and a call fails only by the 30 s timeout, by the peer's call
\* having failed, or, when one wall clock is more than 300 s ahead of the
\* other, by the future timestamp of the frame it read.
C3_Handshake == []C3_Safe /\ <>(\A e \in Ends : Returned(e))

\* both calls have returned their Session
C3_Witness ==
    /\ \A e \in Ends : pc[e] = "done" /\ sess[e].established
    /\ sess["I"].role = "Initiator"
    /\ sess["R"].role = "Responder"
    /\ sess["I"].ratchet.root_key = sess["R"].ratchet.root_key

\* accept has turned down the Handshake of a peer whose clock is ahead
C3_WitnessRejected == FromTheFuture("R") /\ PeerClosed("I")

(***************************************************************************)
(* The claims about independent rotation                                   *)
(***************************************************************************)
Abs(x) == IF x < 0 THEN 0 - x ELSE x

\* each owner has called rotate() once, with the same messages sent and
\* received on both sides, no automatic rotation has run, and the seconds the
\* two calls read are at most max_skew apart
RotatedWithinSkew ==
    /\ DOMAIN sess = Ends
    /\ \A e \in Ends : Len(rots[e]) = 1 /\ ~rots[e][1].auto
    /\ rots["I"][1].sc = rots["R"][1].rc
    /\ rots["I"][1].rc = rots["R"][1].sc
    /\ Abs(rots["I"][1].ts - rots["R"][1].ts) <= MAX_SKEW_SECS

\* C11: two peers that rotate independently stay synchronized when the
\* seconds read by their rotate() calls differ by at most 300: once both have
\* rotated, the send chain key of one is the receive chain key of the other
\* whenever as many messages were received as sent.
C11_IndependentRotation ==
    RotatedWithinSkew =>
        \A e \in Ends :
            sess[e].ratchet.send_counter = sess[Peer(e)].ratchet.recv_counter
                => sess[e].ratchet.send_chain_key
                       = sess[Peer(e)].ratchet.recv_chain_key

\* C11, as far as it goes: the chains stay paired when the two calls read the
\* same second
C11_SameSecond ==
    (RotatedWithinSkew /\ rots["I"][1].ts = rots["R"][1].ts) =>
        \A e \in Ends :
            sess[e].ratchet.send_counter = sess[Peer(e)].ratchet.recv_counter
                => sess[e].ratchet.send_chain_key
                       = sess[Peer(e)].ratchet.recv_chain_key

(***************************************************************************)
(* ratchet.rs: a ratchet whose owner calls next_send_key and rotate        *)
(***************************************************************************)
TInit ==
    /\ RIdle
    /\ SIdle([e \in Ends |-> 0])
    /\ OIdle

\* the owner calls next_send_key
SendKey ==
    /\ rt.send_counter < MaxCtr
    /\ LET out == next_send_key(rt, rnow)
           rotated == out.st.last_rotation # rt.last_rotation
       IN  /\ rt' = out.st
           /\ nrot' = IF rotated THEN nrot + 1 ELSE nrot
           /\ slog' = Append(slog, [key |-> out.key,
                                    counter |-> out.counter,
                                    nrot |-> IF rotated THEN nrot + 1 ELSE nrot,
                                    before |-> rt])
    /\ UNCHANGED <<rt0, rlast, requested, repeated, failed, svars, pvars, evars, rnow, nkey>>

\* the owner calls rotate
RotateCall ==
    /\ nrot < MaxRotate
    /\ rt' = rotate(rt, rnow)
    /\ nrot' = nrot + 1
    /\ UNCHANGED <<rt0, rlast, requested, repeated, failed, svars, pvars, evars, rnow, slog,
                   nkey>>

\* the wall clock of the owner moves on
ClockTick ==
    /\ \E t \in TimePoints : T0 + t > rnow /\ rnow' = T0 + t
    /\ UNCHANGED <<rvars, svars, pvars, evars, slog, nrot, nkey>>

SendNext == SendKey \/ RotateCall \/ ClockTick

SpecSend == TInit /\ [][SendNext]_vars

\* C12: after rotate() has run, the key the next next_send_key returns, and
\* every key after it, differs from every key next_send_key returned before
\* that rotation.
C12_FreshKeyAfterRotate ==
    \A i, j \in DOMAIN slog :
        slog[i].nrot < slog[j].nrot => slog[i].key # slog[j].key

\* a key was returned, rotate() was called, and the next key was returned
C12_Witness ==
    \E j \in DOMAIN slog :
        /\ j > 1
        /\ slog[j - 1].nrot < slog[j].nrot
        /\ slog[j].counter = slog[j - 1].counter + 1

(***************************************************************************)
(* replay.rs: the caller of one ReplayProtection                           *)
(***************************************************************************)
\* a new ReplayProtection, or one that has accepted 0, 1, ..., WINDOW - 1
PInit ==
    /\ RIdle
    /\ SIdle([e \in Ends |-> 0])
    /\ TIdle
    /\ EIdle
    /\ pnow = T0
    /\ plast = NoCheck
    /\ twice = FALSE
    /\ \E n \in {0, MAX_WINDOW_SIZE} :
          /\ rp = CheckedUpTo(ReplayProtection_new, 0, n, T0)
          /\ accepted = 0 .. (n - 1)

\* the sequence numbers a caller passes: small ones and the ones around the
\* window size
SeqInputs == (0 .. MaxSeq) \cup (MAX_WINDOW_SIZE .. (MAX_WINDOW_SIZE + MaxSeq))

\* the timestamps a caller passes: fresh, at the two bounds and beyond them
StampInputs ==
    {pnow, pnow + MAX_TIME_SKEW_SECS, pnow + MAX_TIME_SKEW_SECS + 1} \cup
    (IF pnow > MAX_TIME_SKEW_SECS
     THEN {pnow - MAX_TIME_SKEW_SECS, pnow - MAX_TIME_SKEW_SECS - 1}
     ELSE {})

CheckMessage ==
    \E sequence \in SeqInputs : \E timestamp \in StampInputs :
        LET out == check_message(rp, sequence, timestamp, pnow)
        IN  /\ rp' = out.st
            /\ plast' = [op |-> "check_message", sequence |-> sequence,
                         timestamp |-> timestamp, res |-> out.res,
                         before |-> rp,
                         was_accepted |-> sequence \in accepted]
            /\ accepted' = IF out.res THEN accepted \cup {sequence} ELSE accepted
            /\ twice' = (twice \/ (out.res /\ sequence \in accepted))
            /\ UNCHANGED <<rvars, svars, tvars, evars, pnow>>

Reset ==
    /\ rp # ReplayProtection_new
    /\ rp' = ReplayProtection_reset(rp)
    /\ plast' = [NoCheck EXCEPT !.op = "reset", !.before = rp]
    /\ accepted' = {}
    /\ UNCHANGED <<rvars, svars, tvars, evars, pnow, twice>>

ReplayNext == CheckMessage \/ Reset

SpecReplay == PInit /\ [][ReplayNext]_vars

\* the bound below which check_message turns a sequence number down
WindowFloor(p) == saturating_sub(p.last_sequence, p.window_size)

Fresh(timestamp) ==
    /\ timestamp <= pnow + MAX_TIME_SKEW_SECS
    /\ pnow <= timestamp + MAX_TIME_SKEW_SECS

\* C13: with fresh timestamps and no reset, a sequence number check_message
\* has accepted is never accepted again.
C13_AcceptedOnce == ~twice

\* C14: check_message returns false whenever the timestamp is more than 300 s
\* before or after the local clock, and a timestamp within 300 s, bounds
\* included, is never the reason of a rejection: a call rejected with such a
\* timestamp was given a number that is in the seen set or below the window.
C14_Freshness ==
    plast.op = "check_message" =>
        /\ ~Fresh(plast.timestamp) => ~plast.res
        /\ (Fresh(plast.timestamp) /\ ~plast.res)
              => \/ plast.sequence \in plast.before.seen_messages
                 \/ plast.sequence < WindowFloor(plast.before)

\* a timestamp exactly 300 s old was accepted
C14_Witness ==
    /\ plast.op = "check_message"
    /\ plast.res
    /\ plast.timestamp + MAX_TIME_SKEW_SECS = pnow

\* a timestamp exactly 300 s ahead was accepted
C14_WitnessAhead ==
    /\ plast.op = "check_message"
    /\ plast.res
    /\ plast.timestamp = pnow + MAX_TIME_SKEW_SECS

\* C15: check_message rejects every sequence number below last_sequence -
\* WINDOW, and accepts, with a fresh timestamp, every number at or above that
\* bound that was not accepted before, also when it is smaller than
\* last_sequence.
C15_Window ==
    plast.op = "check_message" =>
        /\ plast.sequence < WindowFloor(plast.before) => ~plast.res
        /\ (/\ Fresh(plast.timestamp)
            /\ ~plast.was_accepted
            /\ plast.sequence >= WindowFloor(plast.before))
              => plast.res

\* a number exactly WINDOW below last_sequence was accepted
C15_Witness ==
    /\ plast.op = "check_message"
    /\ plast.res
    /\ plast.sequence > 0
    /\ plast.sequence + MAX_WINDOW_SIZE = plast.before.last_sequence

\* a number below the window was rejected with a fresh timestamp
C15_WitnessBelow ==
    /\ plast.op = "check_message"
    /\ ~plast.res
    /\ Fresh(plast.timestamp)
    /\ plast.sequence \notin plast.before.seen_messages
    /\ plast.sequence < WindowFloor(plast.before)


(***************************************************************************)
(* protocol.rs / connection.rs: framing, parsing and recv_message          *)
(***************************************************************************)
FInit ==
    /\ RIdle
    /\ SIdle([e \in Ends |-> 0])
    /\ OIdle

\* the bytes of a nonce
NonceBytes == Rep(9, 24)

\* serialized size of an EncryptedMessage around an empty ciphertext
ENVELOPE_BYTES == BLen(Message_to_bytes(Message_encrypted(NonceBytes, <<>>, 0, 0, 0)))

\* ciphertext lengths: empty, short, and those that put the body just at
\* and just above the cap
CiphertextLens ==
    {0, 16, MAX_MESSAGE_SIZE - ENVELOPE_BYTES, MAX_MESSAGE_SIZE - ENVELOPE_BYTES + 1}

SmallMessages ==
    {Message_heartbeat(T0),
     Message_disconnect(None, T0),
     Message_encrypted(NonceBytes, Rep(0, 16), 1, 0, T0)}

\* one message of every payload variant, ciphertexts of the lengths above,
\* and a message whose type and payload disagree
BaseMessages ==
    SmallMessages
    \cup {Message_encrypted(NonceBytes, Rep(0, n), c, 0, T0) :
              n \in CiphertextLens, c \in {0, MaxCtr}}
    \cup {Message_handshake(Rep(5, KYBER_PUBLIC_KEY_BYTES), T0),
          Message_handshake_response(Rep(6, KYBER_CIPHERTEXT_BYTES), T0),
          Message_disconnect(Some(Rep(98, 1) \o Rep(121, 1) \o Rep(101, 1)), T0),
          Message_error(MaxCtr, Rep(120, 2), T0),
          Message_new("KeyRotation", [variant |-> "KeyRotation", new_key_id |-> 1], T0),
          Message_new("Ack", [variant |-> "Ack", message_id |-> MAX_WINDOW_SIZE], T0),
          Message_new("Ack", [variant |-> "Heartbeat"], T0)}

\* those messages with timestamps and key ids of one, two and three bytes
FrameMessages ==
    {[m EXCEPT !.timestamp = ts, !.key_id = k] :
        m \in BaseMessages, ts \in {0, T0, T0 + 65536}, k \in {0, 258}}

\* what a peer may write: whole frames, a frame cut short, the rest of it,
\* a header declaring more than the cap, and a frame whose body is no Message
WireInputs ==
    {frame_message(m).val : m \in SmallMessages}
    \cup {BTake(frame_message(Message_heartbeat(T0)).val, 10),
          BDrop(frame_message(Message_heartbeat(T0)).val, 10),
          BCat(to_be_bytes(MAX_MESSAGE_SIZE + 1, 4), Rep(0, 1)),
          BCat(to_be_bytes(19, 4), Rep(255, 19))}

\* how many bytes one read asks the stream for at most
ReadSizes == {3, READ_BUFFER_SIZE}

\* frame_message followed by parse_framed_message on the whole frame
Frame ==
    \E m \in FrameMessages :
        \E framed \in {frame_message(m)} :
            /\ round' = [op |-> "frame", message |-> m, framed |-> framed,
                         parsed |-> IF framed.ok THEN parse_framed_message(framed.val)
                                    ELSE framed]
            /\ UNCHANGED <<rvars, svars, tvars, pvars, hvars, buffer, stream, closed,
                           cpc, cres, iter, nwrite>>

\* the peer writes bytes to the stream
PeerWrite ==
    /\ nwrite < MaxWrite
    /\ ~closed
    /\ \E bytes \in WireInputs : stream' = BCat(stream, bytes)
    /\ nwrite' = nwrite + 1
    /\ UNCHANGED <<rvars, svars, tvars, pvars, hvars, buffer, closed, cpc, cres, iter,
                   round>>

PeerClose ==
    /\ ~closed
    /\ closed' = TRUE
    /\ UNCHANGED <<rvars, svars, tvars, pvars, hvars, buffer, stream, cpc, cres, iter,
                   round, nwrite>>

\* recv_message is called
RecvCall ==
    /\ cpc = "idle"
    /\ cpc' = "parse"
    /\ cres' = NoResult
    /\ iter' = NoIter
    /\ UNCHANGED <<rvars, svars, tvars, pvars, hvars, buffer, stream, closed, round,
                   nwrite>>

\* recv_message reads again below four bytes and on an incomplete frame
ReadsMore(data, parsed) ==
    \/ BLen(data) < 4
    \/ /\ ~parsed.ok
       /\ parsed.err.kind = "ProtocolError"
       /\ parsed.err.text = "Incomplete message frame"

\* the head of the loop: parse the buffer if it holds a header
RecvParse ==
    /\ cpc = "parse"
    /\ \E parsed \in {parse_framed_message(buffer)} :
       \E more \in {ReadsMore(buffer, parsed)} :
       \E res \in {IF more THEN NoResult
                   ELSE IF parsed.ok THEN Ok(parsed.val.message)
                   ELSE parsed} :
           /\ iter' = [op |-> "parse", data |-> buffer, more |-> more, res |-> res]
           /\ cres' = res
           /\ cpc' = IF more THEN "read" ELSE "idle"
           /\ buffer' = IF ~more /\ parsed.ok THEN BDrop(buffer, parsed.val.consumed)
                        ELSE buffer
           /\ returned' = IF ~more /\ parsed.ok
                          THEN Append(returned, parsed.val.message)
                          ELSE returned
    /\ UNCHANGED <<rvars, svars, tvars, pvars, written, inflight, stream, closed, round,
                   nwrite>>

\* the tail of the loop: one read of the stream
RecvRead ==
    /\ cpc = "read"
    /\ \/ /\ stream # <<>>
          /\ \E k \in ReadSizes :
                LET n == IF BLen(stream) < k THEN BLen(stream) ELSE k
                IN  /\ buffer' = BCat(buffer, BTake(stream, n))
                    /\ stream' = BDrop(stream, n)
          /\ cpc' = "parse"
          /\ UNCHANGED cres
       \/ /\ stream = <<>>
          /\ closed
          /\ cres' = NetErr("ConnectionError", "Connection closed by peer")
          /\ cpc' = "idle"
          /\ UNCHANGED <<buffer, stream>>
    /\ UNCHANGED <<rvars, svars, tvars, pvars, hvars, closed, iter, round, nwrite>>

ConnNext == PeerWrite \/ PeerClose \/ RecvCall \/ RecvParse \/ RecvRead

SpecConn == FInit /\ [][ConnNext]_vars

SpecFrame == FInit /\ [][Frame]_vars

\* the length a frame header declares
Declared(data) == from_be_bytes(data, 4)

\* C16: for every Message m, parse_framed_message(frame_message(m)) returns
\* (m, len(frame_message(m))), and the frame is the 4-byte big-endian length
\* of the serialized body followed by the body.
C16_FrameRoundTrip ==
    round.op = "frame"
        => /\ round.framed.ok
           /\ round.framed.val
                  = BCat(to_be_bytes(BLen(Message_to_bytes(round.message)), 4),
                         Message_to_bytes(round.message))
           /\ round.parsed
                  = Ok([message |-> round.message,
                        consumed |-> BLen(round.framed.val)])

\* the same round trip for the messages whose serialized body is within the cap
C16_WithinCap ==
    (round.op = "frame" /\ BLen(Message_to_bytes(round.message)) <= MAX_MESSAGE_SIZE)
        => /\ round.framed.ok
           /\ round.parsed
                  = Ok([message |-> round.message,
                        consumed |-> BLen(round.framed.val)])

\* a body exactly at the cap has made the round trip
C16_WitnessAtCap ==
    /\ round.op = "frame"
    /\ BLen(Message_to_bytes(round.message)) = MAX_MESSAGE_SIZE
    /\ round.parsed.ok

\* a body one byte above the cap was framed and the frame refused
C16_WitnessAboveCap ==
    /\ round.op = "frame"
    /\ BLen(Message_to_bytes(round.message)) = MAX_MESSAGE_SIZE + 1
    /\ round.framed.ok
    /\ ~round.parsed.ok

Insufficient == NetErr("ProtocolError", "Insufficient data for frame header")

Oversize == NetErr("ProtocolError", "Message too large")

Incomplete == NetErr("ProtocolError", "Incomplete message frame")

\* C17: parse_framed_message gives 'insufficient data' below 4 bytes,
\* 'oversize' for a declared length above the cap whatever the body holds,
\* 'incomplete frame' for a declared length within the cap and too few body
\* bytes, and otherwise the decode result; the four are told apart; in
\* recv_message only 'insufficient' and 'incomplete' lead to another read
\* (after which the call ends only when the stream does), oversize and a
\* decode failure end the call with that error.
C17_ParseOutcomes ==
    iter.op = "parse"
        => \A data \in {iter.data} :
           \A parsed \in {parse_framed_message(data)} :
           \A body \in {IF BLen(data) < 4 THEN <<>>
                         ELSE BTake(BDrop(data, 4), Declared(data))} :
               /\ BLen(data) < 4 => parsed = Insufficient
               /\ (BLen(data) >= 4 /\ Declared(data) > MAX_MESSAGE_SIZE)
                      => parsed = Oversize
               /\ (BLen(data) >= 4 /\ Declared(data) <= MAX_MESSAGE_SIZE
                                   /\ BLen(data) < 4 + Declared(data))
                      => parsed = Incomplete
               /\ (BLen(data) >= 4 /\ Declared(data) <= MAX_MESSAGE_SIZE
                                   /\ BLen(data) >= 4 + Declared(data))
                      => /\ parsed \notin {Insufficient, Oversize, Incomplete}
                         /\ IF Message_from_bytes(body).ok
                            THEN parsed = Ok([message |-> Message_from_bytes(body).val,
                                              consumed |-> 4 + Declared(data)])
                            ELSE parsed = Message_from_bytes(body)
               /\ Cardinality({Insufficient, Oversize, Incomplete}) = 3
               /\ iter.more <=> parsed \in {Insufficient, Incomplete}
               /\ (iter.more /\ cpc = "idle")
                      => cres = NetErr("ConnectionError", "Connection closed by peer")
               /\ (~iter.more /\ ~parsed.ok)
                      => /\ cpc = "idle"
                         /\ cres = parsed
                         /\ buffer = data

\* a header above the cap with a single body byte ended recv_message
C17_Witness ==
    /\ iter.op = "parse"
    /\ BLen(iter.data) = 5
    /\ Declared(iter.data) > MAX_MESSAGE_SIZE
    /\ cres = Oversize
    /\ cpc = "idle"

\* a cut frame made recv_message read again
C17_WitnessIncomplete ==
    /\ iter.op = "parse"
    /\ parse_framed_message(iter.data) = Incomplete
    /\ cpc = "read"

\* fewer than four bytes made recv_message read again
C17_WitnessInsufficient ==
    /\ iter.op = "parse"
    /\ BLen(iter.data) \in 1 .. 3
    /\ cpc = "read"

\* a complete frame whose body is no Message ended recv_message
C17_WitnessDecode ==
    /\ iter.op = "parse"
    /\ cres = DeErr
    /\ cpc = "idle"

\* a complete frame was returned and taken off the buffer
C17_WitnessOk ==
    /\ iter.op = "parse"
    /\ cres.ok
    /\ cpc = "idle"
    /\ BLen(buffer) < BLen(iter.data)

(***************************************************************************)
(* session.rs: a handshake whose first frame is not the expected one       *)
(***************************************************************************)
\* the message type an endpoint waits for
Expected(e) == IF e = "I" THEN "HandshakeResponse" ELSE "Handshake"

\* the KEM bytes a handshake frame carries
KemBytes(m) ==
    IF m.payload.variant = "Handshake" THEN m.payload.public_key
    ELSE m.payload.ciphertext

\* frames a peer can write in place of a frame m of the payload variant that
\* e waits for: one
\* that validate() refuses (version, timestamp, type and payload at odds),
\* valid frames of another type, and the expected frame with a key or
\* ciphertext one byte short or long
BadFrames(e, m) ==
    {[m EXCEPT !.version = CURRENT_PROTOCOL_VERSION + 1],
     [m EXCEPT !.timestamp = now(e) + MAX_SKEW_SECS + 1],
     [m EXCEPT !.message_type = "Heartbeat"],
     Message_heartbeat(m.timestamp),
     Message_disconnect(None, m.timestamp),
     IF e = "I" THEN Message_handshake(KemBytes(m), m.timestamp)
     ELSE Message_handshake_response(KemBytes(m), m.timestamp),
     IF e = "I" THEN [m EXCEPT !.payload.ciphertext.len = KYBER_CIPHERTEXT_BYTES - 1]
     ELSE [m EXCEPT !.payload.public_key.len = KYBER_PUBLIC_KEY_BYTES - 1],
     IF e = "I" THEN [m EXCEPT !.payload.ciphertext.len = KYBER_CIPHERTEXT_BYTES + 1]
     ELSE [m EXCEPT !.payload.public_key.len = KYBER_PUBLIC_KEY_BYTES + 1]}

\* the frame e waits for is replaced on its way
Forge(e) ==
    /\ tampers < MaxTamper
    /\ pc[e] = "wait"
    /\ wire[e] # <<>>
    /\ Head(wire[e]).payload.variant = Expected(e)
    /\ \E m \in BadFrames(e, Head(wire[e])) :
          wire' = [wire EXCEPT ![e] = <<m>> \o Tail(@)]
    /\ tampers' = tampers + 1
    /\ UNCHANGED <<rvars, ovars, time, skew, pc, since, hsres, keypair, sess, sent,
                   rcvd, rots>>

FirstFrameNext ==
    \/ HandshakeNext
    \/ \E e \in Ends : Forge(e)

SpecFirstFrame == SInit /\ [][FirstFrameNext]_vars

\* the first frame m fails validate(), has the wrong type, or carries KEM
\* bytes of the wrong length
BadFirstFrame(e, m) ==
    \/ ~validate(m, now(e)).ok
    \/ m.message_type # Expected(e)
    \/ KemBytes(m).len # (IF e = "I" THEN KYBER_CIPHERTEXT_BYTES
                         ELSE KYBER_PUBLIC_KEY_BYTES)

\* e reads its first frame in this step
ReadsFirstFrame(e) == pc[e] = "wait" /\ wire[e] # <<>> /\ wire'[e] = Tail(wire[e])

\* C18: when the first frame a handshaking endpoint receives fails
\* validate(), has the wrong message type or carries a KEM public key or
\* ciphertext of the wrong length, connect / accept returns an error and no
\* Session exists for that endpoint, and the responder writes no
\* HandshakeResponse.
C18_BadFirstFrame ==
    [][\A e \in Ends :
          (ReadsFirstFrame(e) /\ BadFirstFrame(e, Head(wire[e])))
              => /\ pc'[e] = "err"
                 /\ ~hsres'[e].ok
                 /\ e \notin DOMAIN sess'
                 /\ wire'[Peer(e)] = wire[Peer(e)]]_vars

\* the responder has refused a public key of the wrong length and written
\* nothing
C18_Witness ==
    /\ pc["R"] = "err"
    /\ hsres["R"] = NetErr("ProtocolError", "Invalid public key")
    /\ "R" \notin DOMAIN sess
    /\ wire["I"] = <<>>

\* the initiator has refused a ciphertext of the wrong length
C18_WitnessCiphertext ==
    /\ pc["I"] = "err"
    /\ hsres["I"] = NetErr("ProtocolError", "Invalid ciphertext")
    /\ "I" \notin DOMAIN sess

\* an endpoint has refused a valid frame of another type
C18_WitnessType ==
    \E e \in Ends :
        /\ pc[e] = "err"
        /\ hsres[e] \in {NetErr("ProtocolError", "Expected handshake"),
                         NetErr("ProtocolError", "Expected handshake response")}
        /\ e \notin DOMAIN sess

\* an endpoint has refused a frame of a later protocol version
C18_WitnessValidate ==
    \E e \in Ends :
        /\ pc[e] = "err"
        /\ hsres[e] = NetErr("ProtocolError", "Unsupported protocol version")
        /\ e \notin DOMAIN sess

(***************************************************************************)
(* session.rs: heartbeats, Disconnect and close                            *)
(***************************************************************************)
\* the frames sent to e so far, read or not
FramesTo(e) == Len(wire[e]) + Len(rcvd[e])

\* Session::send_heartbeat
SendHeartbeat(e) ==
    /\ e \in DOMAIN sess
    /\ FramesTo(Peer(e)) < MaxFrames
    /\ wire' = [wire EXCEPT ![Peer(e)] = Append(@, Message_heartbeat(now(e)))]
    /\ UNCHANGED <<rvars, ovars, time, skew, pc, since, hsres, keypair, sess, sent,
                   rcvd, rots, tampers>>

\* Session::close: a Disconnect is written, the transport is shut down and
\* the Session is dropped
Close(e) ==
    /\ e \in DOMAIN sess
    /\ FramesTo(Peer(e)) < MaxFrames
    /\ wire' = [wire EXCEPT ![Peer(e)] =
                   Append(@, Message_disconnect(Some("User requested disconnect"),
                                                now(e)))]
    /\ sess' = [x \in DOMAIN sess \ {e} |-> sess[x]]
    /\ pc' = [pc EXCEPT ![e] = "closed"]
    /\ UNCHANGED <<rvars, ovars, time, skew, since, hsres, keypair, sent, rcvd, rots,
                   tampers>>

\* the owner of the session of e calls recv() once more
RecvFrame(e) ==
    /\ Len(rcvd[e]) < MaxFrames
    /\ Recv(e)

NoFrame == [message_type |-> "None"]

\* recv() when the peer has shut the transport down and nothing is left to
\* read: recv_message fails and recv passes the error on
RecvEof(e) ==
    /\ e \in DOMAIN sess
    /\ sess[e].established
    /\ Len(rcvd[e]) < MaxFrames
    /\ wire[e] = <<>>
    /\ pc[Peer(e)] = "closed"
    /\ rcvd' = [rcvd EXCEPT ![e] =
                   Append(@, [msg |-> NoFrame,
                              res |-> NetErr("ConnectionError",
                                             "Connection closed by peer"),
                              keyres |-> Err("NotCalled"),
                              established |-> sess[e].established,
                              recv_counter |-> sess[e].ratchet.recv_counter,
                              rots |-> rots[e]])]
    /\ UNCHANGED <<rvars, ovars, time, skew, pc, since, hsres, keypair, wire, sess,
                   sent, rots, tampers>>

ControlNext ==
    \/ HandshakeNext
    \/ \E e \in Ends : SendHeartbeat(e)
    \/ \E e \in Ends : Close(e)
    \/ \E e \in Ends : RecvFrame(e)
    \/ \E e \in Ends : RecvEof(e)

SpecControl == SInit /\ [][ControlNext]_vars

\* recv() of e reads a frame of message type ty that passes validate()
ReadsValid(e, ty) ==
    /\ e \in DOMAIN sess
    /\ sess[e].established
    /\ wire[e] # <<>>
    /\ Len(rcvd'[e]) = Len(rcvd[e]) + 1
    /\ Head(wire[e]).message_type = ty
    /\ validate(Head(wire[e]), now(e)).ok

\* what the recv() call of this step returned
Returned_recv(e) == rcvd'[e][Len(rcvd'[e])].res

\* the error with which recv reports that the peer has closed
ConnectionClosed == NetErr("ConnectionError", "Peer disconnected")

\* C19: when recv reads a valid Disconnect frame it sets established to
\* false and returns the error that reports the closed connection.
C19_Disconnect ==
    [][\A e \in Ends :
          ReadsValid(e, "Disconnect")
              => /\ e \in DOMAIN sess'
                 /\ ~sess'[e].established
                 /\ Returned_recv(e) = ConnectionClosed]_vars

\* an endpoint has read the Disconnect its peer's close() wrote
C19_Witness ==
    \E e \in Ends :
        /\ rcvd[e] # <<>>
        /\ rcvd[e][Len(rcvd[e])].msg.message_type = "Disconnect"
        /\ rcvd[e][Len(rcvd[e])].res = ConnectionClosed
        /\ ~sess[e].established
        /\ pc[Peer(e)] = "closed"

\* C20: when recv reads a Heartbeat frame (one that passes validate) it
\* writes exactly one Heartbeat frame to the peer, returns an empty
\* plaintext, and leaves the ratchet and established as they were.
C20_Heartbeat ==
    [][\A e \in Ends :
          ReadsValid(e, "Heartbeat")
              => /\ wire'[Peer(e)] = Append(wire[Peer(e)], Message_heartbeat(now(e)))
                 /\ Returned_recv(e) = Ok("")
                 /\ e \in DOMAIN sess'
                 /\ sess'[e].ratchet = sess[e].ratchet
                 /\ sess'[e].established = sess[e].established]_vars

\* an endpoint has answered a Heartbeat and is still established
C20_Witness ==
    \E e \in Ends :
        /\ rcvd[e] # <<>>
        /\ rcvd[e][Len(rcvd[e])].msg.message_type = "Heartbeat"
        /\ rcvd[e][Len(rcvd[e])].res = Ok("")
        /\ sess[e].established
        /\ wire[Peer(e)] # <<>>
        /\ wire[Peer(e)][Len(wire[Peer(e)])].message_type = "Heartbeat"

(***************************************************************************)
(* ratchet.rs: one ratchet and every call its owner can make on it         *)
(***************************************************************************)
\* 32 bytes overwritten with zeros
ZeroKey == [base |-> "zero", path |-> <<>>]

\* what the memory of a RatchetState holds once it has been dropped: the
\* derived Drop overwrites the fields that are not marked #[zeroize(skip)],
\* and the SymmetricKeys of the dropped HashMap overwrite themselves
RatchetState_drop(r) ==
    [r EXCEPT
        !.send_counter = 0,
        !.recv_counter = 0,
        !.last_rotation = 0,
        !.skipped_message_keys = [i \in DOMAIN @ |-> ZeroKey]]

\* the names of the root keys an owner may pass to rekey
RootNames == {"rootA", "rootB"}

\* seconds after T0 at which the owner looks at its clock
RotationPoints == {ROTATION_INTERVAL_SECS - 1, ROTATION_INTERVAL_SECS}

\* the calls made on rt so far
Calls == Len(slog) + Cardinality(requested) + nrot + nkey

Dropped == rlast.op = "drop"

OwnerInit ==
    /\ rt0 \in {RatchetState_new(RootKey("rootA"), T0),
                RatchetState_new_responder(RootKey("rootA"), T0)}
    /\ rt = rt0
    /\ rlast = NoCall
    /\ requested = {}
    /\ repeated = FALSE
    /\ failed = FALSE
    /\ SIdle([e \in Ends |-> 0])
    /\ OIdle

\* the record of a call: its name, its argument, its result, the state it
\* found and the second at which it was made
OwnerCall(op, c, res) ==
    [op |-> op, c |-> c, res |-> res, cached |-> FALSE, gap |-> 0,
     before |-> rt, at |-> rnow]

OwnerSend ==
    /\ ~Dropped
    /\ Calls < MaxCalls
    /\ \E out \in {next_send_key(rt, rnow)} :
          /\ rt' = out.st
          /\ nrot' = IF out.st.last_rotation # rt.last_rotation
                     THEN nrot + 1 ELSE nrot
          /\ slog' = Append(slog, [key |-> out.key, counter |-> out.counter,
                                   nrot |-> nrot', nkey |-> nkey,
                                   root |-> rt.root_key])
          /\ rlast' = OwnerCall("next_send_key", out.counter, Ok(out.key))
    /\ UNCHANGED <<rt0, requested, repeated, failed, svars, pvars, evars, rnow, nkey>>

\* the counters the owner asks for: the next one, one and SKIPPED_CLEAR_LIMIT
\* and one more than that ahead, and the oldest one in the cache
OwnerRecvInputs ==
    {rt.recv_counter + d : d \in {0, 1, SKIPPED_CLEAR_LIMIT, SKIPPED_CLEAR_LIMIT + 1}}
    \cup {c \in DOMAIN rt.skipped_message_keys :
            \A d \in DOMAIN rt.skipped_message_keys : c <= d}

OwnerRecv ==
    /\ ~Dropped
    /\ Calls < MaxCalls
    /\ \E c \in OwnerRecvInputs : \E out \in {get_recv_key(rt, c)} :
          /\ rt' = out.st
          /\ rlast' = [OwnerCall("get_recv_key", c, out.res) EXCEPT
                          !.cached = c \in DOMAIN rt.skipped_message_keys,
                          !.gap = c - rt.recv_counter]
          /\ requested' = requested \cup {c}
          /\ repeated' = (repeated \/ c \in requested)
          /\ failed' = (failed \/ ~out.res.ok)
    /\ UNCHANGED <<rt0, svars, pvars, evars, tvars>>

OwnerRotate ==
    /\ ~Dropped
    /\ Calls < MaxCalls
    /\ nrot < MaxRotate
    /\ rt' = rotate(rt, rnow)
    /\ nrot' = nrot + 1
    /\ rlast' = OwnerCall("rotate", rnow, Ok(0))
    /\ UNCHANGED <<rt0, requested, repeated, failed, svars, pvars, evars, rnow, slog,
                   nkey>>

OwnerRekey ==
    /\ ~Dropped
    /\ Calls < MaxCalls
    /\ nkey < MaxRekey
    /\ \E name \in RootNames :
          /\ rt' = rekey(rt, RootKey(name), rnow)
          /\ rlast' = OwnerCall("rekey", name, Ok(0))
    /\ nkey' = nkey + 1
    /\ UNCHANGED <<rt0, requested, repeated, failed, svars, pvars, evars, rnow, slog,
                   nrot>>

\* the owner, or the Session that holds the ratchet, is dropped
OwnerDrop ==
    /\ ~Dropped
    /\ rt' = RatchetState_drop(rt)
    /\ rlast' = OwnerCall("drop", 0, Ok(0))
    /\ UNCHANGED <<rt0, requested, repeated, failed, svars, pvars, evars, tvars>>

OwnerTick ==
    /\ ~Dropped
    /\ \E t \in RotationPoints : T0 + t > rnow /\ rnow' = T0 + t
    /\ UNCHANGED <<rvars, svars, pvars, evars, slog, nrot, nkey>>

OwnerNext ==
    OwnerSend \/ OwnerRecv \/ OwnerRotate \/ OwnerRekey \/ OwnerDrop \/ OwnerTick

SpecOwner == OwnerInit /\ [][OwnerNext]_vars

(***************************************************************************)
(* The claims about the calls on one ratchet                               *)
(***************************************************************************)
\* the keys returned before a rekey and those returned after it differ
FreshAfterRekey(i, j) == slog[i].nkey < slog[j].nkey => slog[i].key # slog[j].key

C21_WitnessReset ==
    /\ rlast.op = "rekey"
    /\ rlast.before.send_counter > 0
    /\ rlast.before.recv_counter > 0
    /\ DOMAIN rlast.before.skipped_message_keys # {}

\* C22: once a RatchetState has been dropped, root_key, send_chain_key,
\* recv_chain_key and every key still held in the skipped-key cache have been
\* overwritten with zeros.
C22_DropZeroizes ==
    Dropped
        => /\ rt.root_key = ZeroKey
           /\ rt.send_chain_key = ZeroKey
           /\ rt.recv_chain_key = ZeroKey
           /\ \A i \in DOMAIN rt.skipped_message_keys :
                 rt.skipped_message_keys[i] = ZeroKey

\* what the drop does overwrite: the two counters, last_rotation and the keys
\* in the cache
C22_DropOverwrites ==
    Dropped
        => /\ rt.send_counter = 0
           /\ rt.recv_counter = 0
           /\ rt.last_rotation = 0
           /\ \A i \in DOMAIN rt.skipped_message_keys :
                 rt.skipped_message_keys[i] = ZeroKey
           /\ rt.root_key = rlast.before.root_key
           /\ rt.send_chain_key = rlast.before.send_chain_key
           /\ rt.recv_chain_key = rlast.before.recv_chain_key

\* the derivation steps p are the first steps of the derivation q: the key
\* whose term ends in p gives the key whose term ends in q by further HKDF
\* and HMAC steps (a run of identical HKDF steps is one entry with its length)
StepsBegin(p, q) ==
    /\ Len(p) <= Len(q)
    /\ \A i \in 1 .. (Len(p) - 1) : p[i] = q[i]
    /\ Len(p) > 0 =>
          \/ p[Len(p)] = q[Len(p)]
          \/ /\ p[Len(p)][1] = "hkdf"
             /\ q[Len(p)][1] = "hkdf"
             /\ p[Len(p)][2] = q[Len(p)][2]
             /\ p[Len(p)][3] = q[Len(p)][3]
             /\ p[Len(p)][4] <= q[Len(p)][4]

\* key k can be computed from key h with the operations of kdf.rs, the
\* separators, the counters and the rotation seconds
ComputableFrom(h, k) == h.base = k.base /\ StepsBegin(h.path, k.path)

\* C23: once next_send_key has returned the key of counter n and advanced the
\* chain, that key cannot be computed from the keys the RatchetState holds.
C23_ForwardSecrecy ==
    \A i \in DOMAIN slog :
        \A h \in {rt.root_key, rt.send_chain_key, rt.recv_chain_key} :
            ~ComputableFrom(h, slog[i].key)

\* the two chain keys alone give none of the keys returned since the last
\* rekey
C23_ChainKeysAlone ==
    \A i \in DOMAIN slog :
        slog[i].nkey = nkey
            => \A h \in {rt.send_chain_key, rt.recv_chain_key} :
                  ~ComputableFrom(h, slog[i].key)

\* a key was returned by a call that rotated first, and another after it
C23_WitnessRotated ==
    \E i \in DOMAIN slog :
        /\ i < Len(slog)
        /\ slog[i].nrot > 0
        /\ ComputableFrom(rt.root_key, slog[i].key)

(***************************************************************************)
(* session.rs: frames that do not pass Message::validate                   *)
(***************************************************************************)
\* what a frame m on its way to e can be turned into: an earlier and a later
\* version, a timestamp at the bound of validate() and one second past it,
\* another message type over the same payload, and a Heartbeat or a
\* Disconnect that validate() refuses
Spoiled(e, m) ==
    {[m EXCEPT !.version = CURRENT_PROTOCOL_VERSION - 1],
     [m EXCEPT !.version = CURRENT_PROTOCOL_VERSION + 1],
     [m EXCEPT !.timestamp = now(e) + MAX_SKEW_SECS],
     [m EXCEPT !.timestamp = now(e) + MAX_SKEW_SECS + 1],
     [m EXCEPT !.message_type = "Heartbeat"],
     Message_heartbeat(now(e) + MAX_SKEW_SECS + 1),
     [Message_disconnect(None, m.timestamp)
         EXCEPT !.version = CURRENT_PROTOCOL_VERSION + 1]}

\* the next frame e will read is changed on its way
Spoil(e) ==
    /\ tampers < MaxTamper
    /\ wire[e] # <<>>
    /\ \E m \in Spoiled(e, Head(wire[e])) :
          wire' = [wire EXCEPT ![e] = <<m>> \o Tail(@)]
    /\ tampers' = tampers + 1
    /\ UNCHANGED <<rvars, ovars, time, skew, pc, since, hsres, keypair, sess, sent,
                   rcvd, rots>>

\* the owner of the session of e sends one message once the peer has read
\* what was sent to it
SendPing(e) ==
    /\ FramesTo(Peer(e)) < MaxFrames
    /\ wire[Peer(e)] = <<>>
    /\ Send(e, "ping")

ValidateNext ==
    \/ HandshakeNext
    \/ \E e \in Ends : Spoil(e)
    \/ \E e \in Ends : SendPing(e)
    \/ \E e \in Ends : RecvFrame(e)

SpecValidate == SInit /\ [][ValidateNext]_vars

(***************************************************************************)
(* The claims about Message::validate and its callers                      *)
(***************************************************************************)
\* the message types with the payload variant each of them goes with
MatchingPairs ==
    {<<"Handshake", "Handshake">>,
     <<"HandshakeResponse", "HandshakeResponse">>,
     <<"EncryptedMessage", "EncryptedData">>,
     <<"KeyRotation", "KeyRotation">>,
     <<"Ack", "Ack">>,
     <<"Heartbeat", "Heartbeat">>,
     <<"Disconnect", "Disconnect">>,
     <<"Error", "Error">>}

\* the three conditions on a message read at second clock
Passes(m, clock) ==
    /\ m.version <= CURRENT_PROTOCOL_VERSION
    /\ m.timestamp <= clock + MAX_SKEW_SECS
    /\ <<m.message_type, m.payload.variant>> \in MatchingPairs

\* r is one of the errors of validate()
ValidateError(r) ==
    /\ ~r.ok
    /\ r.err.kind = "ProtocolError"
    /\ r.err.text \in {"Unsupported protocol version",
                       "Timestamp too far in the future",
                       "Message type and payload mismatch"}

\* e reads the frame at the head of its stream in this step
ReadsFrame(e) ==
    /\ wire[e] # <<>>
    /\ wire'[e] = Tail(wire[e])

\* what the call of e that read a frame in this step returned
ReturnedOf(e) ==
    IF pc[e] = "wait"
    THEN IF pc'[e] = "err" THEN hsres'[e] ELSE Ok("session")
    ELSE Returned_recv(e)

\* the call of e that read a frame in this step changed nothing and wrote
\* nothing
NotActedOn(e) ==
    /\ wire'[Peer(e)] = wire[Peer(e)]
    /\ IF pc[e] = "wait"
       THEN pc'[e] = "err" /\ e \notin DOMAIN sess'
       ELSE sess'[e] = sess[e]

\* C24: validate accepts a message exactly when its version is at most the
\* current one, its timestamp is at most 300 s past the reader's clock and
\* its payload variant is the one of its message type; recv, connect and
\* accept return the error of validate for a frame that fails it, and do so
\* without a change to the session and without writing anything.
C24_Validate ==
    [][\A e \in Ends :
          ReadsFrame(e)
              => LET m == Head(wire[e])
                 IN  /\ validate(m, now(e)).ok <=> Passes(m, now(e))
                     /\ ValidateError(ReturnedOf(e)) <=> ~Passes(m, now(e))
                     /\ ~Passes(m, now(e))
                            => /\ ReturnedOf(e) = validate(m, now(e))
                               /\ NotActedOn(e)]_vars

\* recv has refused a Heartbeat frame
C24_Witness ==
    \E e \in Ends : \E i \in DOMAIN rcvd[e] :
       /\ ValidateError(rcvd[e][i].res)
       /\ rcvd[e][i].msg.message_type = "Heartbeat"
       /\ rcvd[e][i].msg.payload.variant = "Heartbeat"

\* recv has refused a message whose type is not the one of its payload
C24_WitnessMismatch ==
    \E e \in Ends : \E i \in DOMAIN rcvd[e] :
       /\ ValidateError(rcvd[e][i].res)
       /\ rcvd[e][i].msg.payload.variant = "EncryptedData"
       /\ rcvd[e][i].res.err.text = "Message type and payload mismatch"

\* a handshake call has returned the error of validate
C24_WitnessHandshake ==
    \E e \in Ends : pc[e] = "err" /\ ValidateError(hsres[e])

\* recv has accepted a message whose timestamp is 300 s past its clock
C24_WitnessAtBound ==
    \E e \in Ends : \E i \in DOMAIN rcvd[e] :
       /\ rcvd[e][i].res.ok
       /\ rcvd[e][i].msg.timestamp = now(e) + MAX_SKEW_SECS

\* the next_send_key calls made before call i since the rekey before it, or
\* since the ratchet was built
EarlierSends(i) == {j \in 1..(i - 1) : slog[j].nkey = slog[i].nkey}

\* this step is a next_send_key call
SendStep == Len(slog') = Len(slog) + 1

C25_WitnessRekey ==
    /\ rlast.op = "rekey"
    /\ rlast.before.send_counter > 0
    /\ rt.send_counter = 0

\* a rotation is due on the ratchet at this second
RotationDue == rnow >= rt.last_rotation + ROTATION_INTERVAL_SECS

\* this step is a get_recv_key call
RecvStep ==
    /\ rlast'.op = "get_recv_key"
    /\ \/ rlast.op # "get_recv_key"
       \/ rlast'.c # rlast.c
       \/ rlast'.at # rlast.at
       \/ rlast'.before # rlast.before

\* C26: next_send_key rotates first, at the current second, exactly when the
\* current second is at least last_rotation + 60, and derives the key it
\* returns from the chain as the rotation left it; get_recv_key never
\* rotates, so a ratchet on which only get_recv_key is called keeps the
\* last_rotation it was built with.
C26_AutoRotation ==
    /\ [][/\ SendStep
             => \E r \in {IF RotationDue THEN rotate(rt, rnow) ELSE rt} :
                   /\ (nrot' = nrot + 1) <=> RotationDue
                   /\ rt'.last_rotation = r.last_rotation
                   /\ rt'.recv_chain_key = r.recv_chain_key
                   /\ slog'[Len(slog')].key
                         = derive_message_key(r.send_chain_key, rt.send_counter)
          /\ RecvStep
             => /\ rt'.last_rotation = rt.last_rotation
                /\ rt'.send_chain_key = rt.send_chain_key
                /\ nrot' = nrot]_vars
    /\ []((slog = <<>> /\ nrot = 0 /\ nkey = 0 /\ ~Dropped)
             => rt.last_rotation = rt0.last_rotation)

\* a next_send_key call made exactly 60 s after the last rotation has rotated
C26_Witness ==
    /\ rlast.op = "next_send_key"
    /\ rlast.at = rlast.before.last_rotation + ROTATION_INTERVAL_SECS
    /\ rt.last_rotation = rlast.at

\* a next_send_key call made 59 s after the last rotation has not rotated
C26_WitnessNotDue ==
    /\ rlast.op = "next_send_key"
    /\ rlast.at = rlast.before.last_rotation + ROTATION_INTERVAL_SECS - 1
    /\ rt.last_rotation = rlast.before.last_rotation

\* a get_recv_key call made when a rotation was due has returned a key
C26_WitnessRecv ==
    /\ rlast.op = "get_recv_key"
    /\ rlast.res.ok
    /\ rlast.at >= rlast.before.last_rotation + ROTATION_INTERVAL_SECS
    /\ rt.last_rotation = rlast.before.last_rotation

\* C27 as stated: a next_send_key call leaves recv_chain_key, recv_counter
\* and the skipped-key cache unchanged, and a get_recv_key call leaves
\* send_chain_key, send_counter and last_rotation unchanged.
C27_Independent ==
    [][/\ SendStep
          => /\ rt'.recv_chain_key = rt.recv_chain_key
             /\ rt'.recv_counter = rt.recv_counter
             /\ rt'.skipped_message_keys = rt.skipped_message_keys
       /\ RecvStep
          => /\ rt'.send_chain_key = rt.send_chain_key
             /\ rt'.send_counter = rt.send_counter
             /\ rt'.last_rotation = rt.last_rotation]_vars

\* what does hold: get_recv_key leaves the send side alone, and so does
\* next_send_key the receive side when no rotation is due
C27_IndependentUnlessDue ==
    [][/\ (SendStep /\ ~RotationDue)
          => /\ rt'.recv_chain_key = rt.recv_chain_key
             /\ rt'.recv_counter = rt.recv_counter
             /\ rt'.skipped_message_keys = rt.skipped_message_keys
       /\ SendStep => rt'.recv_counter = rt.recv_counter
       /\ RecvStep
          => /\ rt'.send_chain_key = rt.send_chain_key
             /\ rt'.send_counter = rt.send_counter
             /\ rt'.last_rotation = rt.last_rotation]_vars

\* a next_send_key call has emptied a cache of more than SKIPPED_CLEAR_LIMIT
\* keys
C27_WitnessCacheLost ==
    /\ rlast.op = "next_send_key"
    /\ Cardinality(DOMAIN rlast.before.skipped_message_keys) > SKIPPED_CLEAR_LIMIT
    /\ DOMAIN rt.skipped_message_keys = {}

\* this step is a rotate() call by the owner
RotateStep ==
    /\ rlast'.op = "rotate"
    /\ \/ rlast.op # "rotate"
       \/ rlast'.at # rlast.at
       \/ rlast'.before # rlast.before

\* key k2 is HMAC(k, context) for a context made of "rotation-v1-" and the
\* eight bytes that are second, least significant byte first (a second of
\* the model is below 2^32, so the upper four bytes are 0)
RotatedFrom(k, k2, second) ==
    /\ k2.base = k.base
    /\ Len(k2.path) = Len(k.path) + 1
    /\ SubSeq(k2.path, 1, Len(k.path)) = k.path
    /\ \E step \in {k2.path[Len(k2.path)]} :
          /\ step[1] = "hmac"
          /\ step[2][1] = "rotation-v1-"
          /\ BLen(step[2][2]) = 8
          /\ from_le_bytes(step[2][2], 8) = second
          /\ \A i \in 0 .. 3 : BAt(step[2][2], i) = (second \div (256 ^ i)) % 256
          /\ \A i \in 4 .. 7 : BAt(step[2][2], i) = 0

\* C28: rotate() leaves send_counter, recv_counter and root_key unchanged,
\* replaces each chain key by its HMAC with "rotation-v1-" followed by the
\* eight little-endian bytes of the current second, and sets last_rotation to
\* that second; the rotation that next_send_key makes first does the same.
C28_Rotate ==
    [][/\ RotateStep
          => /\ rt'.send_counter = rt.send_counter
             /\ rt'.recv_counter = rt.recv_counter
             /\ rt'.root_key = rt.root_key
             /\ RotatedFrom(rt.send_chain_key, rt'.send_chain_key, rnow)
             /\ RotatedFrom(rt.recv_chain_key, rt'.recv_chain_key, rnow)
             /\ rt'.last_rotation = rnow
       /\ (SendStep /\ RotationDue)
          => /\ rt'.send_counter = rt.send_counter + 1
             /\ rt'.recv_counter = rt.recv_counter
             /\ rt'.root_key = rt.root_key
             /\ RotatedFrom(rt.recv_chain_key, rt'.recv_chain_key, rnow)
             /\ rt'.last_rotation = rnow]_vars

\* rotate() has run on a ratchet whose two counters were above 0
C28_Witness ==
    /\ rlast.op = "rotate"
    /\ rlast.before.send_counter > 0
    /\ rlast.before.recv_counter > 0
    /\ rt.send_counter = rlast.before.send_counter
    /\ rt.recv_counter = rlast.before.recv_counter
    /\ rt.last_rotation = rlast.at

\* this step runs rotate(), called by the owner or by next_send_key
Rotates == RotateStep \/ (SendStep /\ RotationDue)

\* C29: a rotation empties the skipped-key cache when it holds more than 100
\* entries and leaves it as it is when it holds 100 or fewer, so that the
\* cache holds at most 100 entries when rotate() returns.
C29_CacheCleared ==
    [][Rotates
          => /\ Cardinality(DOMAIN rt.skipped_message_keys) > 100
                => DOMAIN rt'.skipped_message_keys = {}
             /\ Cardinality(DOMAIN rt.skipped_message_keys) <= 100
                => rt'.skipped_message_keys = rt.skipped_message_keys
             /\ Cardinality(DOMAIN rt'.skipped_message_keys) <= 100]_vars

\* rotate() has emptied a cache of 101 keys
C29_Witness ==
    /\ rlast.op = "rotate"
    /\ Cardinality(DOMAIN rlast.before.skipped_message_keys) = 101
    /\ DOMAIN rt.skipped_message_keys = {}

\* rotate() has left a cache of 100 keys as it was
C29_WitnessKept ==
    /\ rlast.op = "rotate"
    /\ Cardinality(DOMAIN rlast.before.skipped_message_keys) = 100
    /\ rt.skipped_message_keys = rlast.before.skipped_message_keys

\* the seen set of p with the number of the last call added
Inserted == plast.before.seen_messages \cup {plast.sequence}

\* C30: when check_message returns, the seen set holds at most WINDOW
\* numbers: when the insertion has made it larger, the numbers at or below
\* last_sequence - WINDOW are dropped from it and that brings it back within
\* the bound.
C30_SeenBound ==
    /\ Cardinality(rp.seen_messages) <= 10000
    /\ (plast.op = "check_message" /\ plast.res)
          => IF Cardinality(Inserted) > 10000
             THEN rp.seen_messages
                     = {seq \in Inserted : seq > rp.last_sequence - 10000}
             ELSE rp.seen_messages = Inserted

\* check_message has added a number to a set of WINDOW numbers and has
\* dropped another one
C30_Witness ==
    /\ plast.op = "check_message"
    /\ plast.res
    /\ Cardinality(plast.before.seen_messages) = 10000
    /\ Cardinality(rp.seen_messages) = 10000
    /\ plast.sequence \in rp.seen_messages
    /\ rp.seen_messages # Inserted

(***************************************************************************)
(* Further claims about ReplayProtection                                   *)
(***************************************************************************)

\* m is the largest number accepted since creation or the last reset, and 0
\* if there is none
LargestAccepted(m) ==
    IF accepted = {} THEN m = 0
    ELSE m \in accepted /\ \A n \in accepted : n <= m

\* C31: last_sequence is the largest sequence number accepted since creation
\* or the last reset, and 0 if there is none: a call that accepts a smaller
\* number and a call that rejects leave it as it was, and no check_message
\* call makes it smaller.
C31_LastSequence ==
    /\ LargestAccepted(rp.last_sequence)
    /\ plast.op = "check_message"
          => /\ rp.last_sequence >= plast.before.last_sequence
             /\ ~plast.res => rp.last_sequence = plast.before.last_sequence
             /\ (plast.res /\ plast.sequence < plast.before.last_sequence)
                   => rp.last_sequence = plast.before.last_sequence
             /\ (plast.res /\ plast.sequence > plast.before.last_sequence)
                   => rp.last_sequence = plast.sequence
    /\ plast.op = "reset" => rp.last_sequence = 0

\* a number smaller than last_sequence was accepted
C31_Witness ==
    /\ plast.op = "check_message"
    /\ plast.res
    /\ plast.sequence < plast.before.last_sequence
    /\ rp.last_sequence = plast.before.last_sequence
    /\ rp.last_sequence > 0

\* a reset has taken last_sequence from above 0 back to 0
C31_WitnessReset ==
    /\ plast.op = "reset"
    /\ plast.before.last_sequence > 0
    /\ rp.last_sequence = 0

\* the last call was a check_message that returned false
Rejected == plast.op = "check_message" /\ ~plast.res

\* C39: a check_message call that returns false, whatever the reason, leaves
\* seen_messages and last_sequence exactly as they were.
C39_RejectedUnchanged ==
    Rejected
        => /\ rp.seen_messages = plast.before.seen_messages
           /\ rp.last_sequence = plast.before.last_sequence

\* a number below the window was rejected with a fresh timestamp
C39_Witness ==
    /\ Rejected
    /\ Fresh(plast.timestamp)
    /\ plast.sequence \notin plast.before.seen_messages
    /\ plast.sequence < WindowFloor(plast.before)
    /\ rp = plast.before

\* a number in the seen set was rejected with a fresh timestamp
C39_WitnessDuplicate ==
    /\ Rejected
    /\ Fresh(plast.timestamp)
    /\ plast.sequence \in plast.before.seen_messages

\* a new number was rejected for a timestamp more than 300 s old
C39_WitnessStale ==
    /\ Rejected
    /\ plast.sequence \notin plast.before.seen_messages
    /\ plast.timestamp + MAX_TIME_SKEW_SECS < pnow

\* a new number was rejected for a timestamp more than 300 s ahead
C39_WitnessFuture ==
    /\ Rejected
    /\ plast.sequence \notin plast.before.seen_messages
    /\ plast.timestamp > pnow + MAX_TIME_SKEW_SECS

(***************************************************************************)
(* connection.rs: messages sent through one Connection and received        *)
(* through the other, over a transport that splits and coalesces           *)
(***************************************************************************)
\* the messages the peer sends: a Heartbeat and an EncryptedMessage
SentKinds == {"Heartbeat", "EncryptedMessage"}

SentMessage(kind) ==
    IF kind = "Heartbeat" THEN Message_heartbeat(T0)
    ELSE Message_encrypted(NonceBytes, Rep(0, 16), 1, 0, T0)

\* Connection::send_message on the peer's side: the frame of m is handed to
\* the transport
SendMessage ==
    /\ ~closed
    /\ Len(written) < MaxWrite
    /\ \E kind \in SentKinds : \E m \in {SentMessage(kind)} :
          /\ written' = Append(written, m)
          /\ inflight' = BCat(inflight, frame_message(m).val)
    /\ UNCHANGED <<rvars, svars, tvars, pvars, fvars, returned>>

\* how many bytes the transport hands over when it does not hand over
\* everything it holds
SEGMENT_BYTES == 10

\* the transport delivers everything it holds, or the next segment of it
Deliver ==
    /\ inflight # <<>>
    /\ \/ /\ stream' = BCat(stream, inflight)
          /\ inflight' = <<>>
       \/ /\ SEGMENT_BYTES < BLen(inflight)
          /\ stream' = BCat(stream, BTake(inflight, SEGMENT_BYTES))
          /\ inflight' = BDrop(inflight, SEGMENT_BYTES)
    /\ UNCHANGED <<rvars, svars, tvars, pvars, written, returned, buffer, closed, cpc,
                   cres, iter, round, nwrite>>

\* the peer closes after everything it sent has been delivered
CloseAfter == inflight = <<>> /\ PeerClose

OrderNext == SendMessage \/ Deliver \/ CloseAfter \/ RecvCall \/ RecvParse \/ RecvRead

SpecOrder == FInit /\ [][OrderNext]_vars

\* the frames of the messages ms, one after the other
RECURSIVE FramesOf(_)
FramesOf(ms) ==
    IF ms = <<>> THEN <<>>
    ELSE BCat(frame_message(Head(ms)).val, FramesOf(Tail(ms)))

\* C32: recv_message returns the messages in the order in which they were
\* sent, however the transport splits or joins their bytes: what it has
\* returned is the beginning of what was sent, and the bytes of the messages
\* not yet returned are, in order, those in the buffer, those not yet read
\* and those not yet delivered, so that a partial frame waits in the buffer
\* and what follows a complete frame stays there for the next call.
C32_InOrder ==
    /\ Len(returned) <= Len(written)
    /\ \A i \in DOMAIN returned : returned[i] = written[i]
    /\ BCat(BCat(buffer, stream), inflight)
          = FramesOf(SubSeq(written, Len(returned) + 1, Len(written)))
    /\ (cpc = "idle" /\ cres.ok)
          => /\ returned # <<>>
             /\ cres.val = returned[Len(returned)]

\* two different messages were sent and both have been returned
C32_Witness ==
    /\ Len(written) = 2
    /\ written[1] # written[2]
    /\ returned = written
    /\ buffer = <<>>

\* a call has returned the first message while the buffer holds the whole
\* frame of the second
C32_WitnessCoalesced ==
    /\ Len(returned) = 1
    /\ cpc = "idle"
    /\ Len(written) = 2
    /\ buffer = frame_message(written[2]).val

\* a call waits for the rest of a frame of which the buffer holds a part
C32_WitnessPartial ==
    /\ cpc = "read"
    /\ BLen(buffer) > 4
    /\ returned = <<>>
    /\ written # <<>>
    /\ BLen(buffer) < BLen(frame_message(written[1]).val)

(***************************************************************************)
(* session.rs: frames of a type that recv does not handle                  *)
(***************************************************************************)
\* the message types recv has no arm for
StrayTypes == {"Handshake", "HandshakeResponse", "KeyRotation", "Ack", "Error"}

\* a valid message of the stray type ty, written at second clock
StrayMessage(ty, clock) ==
    IF ty = "Handshake" THEN Message_handshake(Rep(5, KYBER_PUBLIC_KEY_BYTES), clock)
    ELSE IF ty = "HandshakeResponse"
    THEN Message_handshake_response(Rep(6, KYBER_CIPHERTEXT_BYTES), clock)
    ELSE IF ty = "KeyRotation"
    THEN Message_new("KeyRotation", [variant |-> "KeyRotation", new_key_id |-> 1], clock)
    ELSE IF ty = "Ack"
    THEN Message_new("Ack", [variant |-> "Ack", message_id |-> 0], clock)
    ELSE Message_error(1, Rep(120, 2), clock)

\* a frame of a stray type reaches the established session of e, which has
\* read what was sent to it before
Stray(e) ==
    /\ tampers < MaxTamper
    /\ e \in DOMAIN sess
    /\ FramesTo(e) < MaxFrames
    /\ wire[e] = <<>>
    /\ \E ty \in StrayTypes :
          wire' = [wire EXCEPT ![e] = <<StrayMessage(ty, T0)>>]
    /\ tampers' = tampers + 1
    /\ UNCHANGED <<rvars, ovars, time, skew, pc, since, hsres, keypair, sess, sent,
                   rcvd, rots>>

StrayNext ==
    \/ HandshakeNext
    \/ \E e \in Ends : Stray(e)
    \/ SendPing("I")
    \/ \E e \in Ends : RecvFrame(e)

SpecStray == SInit /\ [][StrayNext]_vars

\* C33: in an established session, recv of a valid frame of type Handshake,
\* HandshakeResponse, KeyRotation, Ack or Error returns a ProtocolError and
\* leaves established and the ratchet as they were; nothing is written.
C33_StrayFrame ==
    [][\A e \in Ends : \A ty \in StrayTypes :
          ReadsValid(e, ty)
              => /\ ~Returned_recv(e).ok
                 /\ Returned_recv(e).err.kind = "ProtocolError"
                 /\ sess'[e].established = sess[e].established
                 /\ sess'[e].ratchet = sess[e].ratchet
                 /\ wire'[Peer(e)] = wire[Peer(e)]]_vars

\* recv has turned down a valid Error frame on a session whose ratchet had
\* received a message, and the session is still established
C33_Witness ==
    \E e \in Ends : \E i \in DOMAIN rcvd[e] :
       /\ rcvd[e][i].msg.message_type = "Error"
       /\ rcvd[e][i].res = NetErr("ProtocolError", "Unexpected message type")
       /\ rcvd[e][i].established
       /\ rcvd[e][i].recv_counter > 0
       /\ sess[e].established
(***************************************************************************)
(* session.rs: a handshake call whose peer stays silent                    *)
(***************************************************************************)
\* the moments around the end of the wait of e
TimerPoints(e) == {since[e] + HANDSHAKE_TIMEOUT - 1, since[e] + HANDSHAKE_TIMEOUT}

\* time passes, up to a time point, to the second before a handshake timer
\* fires or to the moment it fires, but not past a timer that has fired
Elapse ==
    /\ \A e \in Ends : ~Expired(e)
    /\ \E t \in TimePoints \cup UNION {TimerPoints(e) : e \in Ends} :
          t > time /\ time' = t
    /\ UNCHANGED <<rvars, ovars, skew, pc, since, hsres, keypair, wire, sess, sent,
                   rcvd, rots, tampers>>

\* the peer of each call holds its connection open and writes nothing: accept
\* waits for a Handshake while connect has not run, and the Handshake connect
\* has written is never answered
SilentNext ==
    \/ Connect
    \/ \E e \in Ends : HandshakeTimeout(e)
    \/ Elapse

\* time goes on, and the timer of tokio::time::timeout fires when it is due
SpecSilent ==
    /\ SInit
    /\ [][SilentNext]_vars
    /\ WF_vars(Elapse)
    /\ \A e \in Ends : WF_vars(HandshakeTimeout(e))

\* the call of e is waiting for the handshake frame of its peer
Waiting(e) == pc[e] = "wait"

\* what holds of a call that has returned Timeout
C34_Safe ==
    \A e \in Ends :
        /\ TimedOut(e) => /\ e \notin DOMAIN sess
                          /\ time >= since[e] + HANDSHAKE_TIMEOUT
        /\ Waiting(e) => e \notin DOMAIN sess

\* a call whose timer has fired returns Timeout and nothing else, and a call
\* that has returned Timeout does not wait again
C34_Step ==
    \A e \in Ends :
        /\ (Expired(e) /\ pc'[e] # pc[e]) => TimedOut(e)'
        /\ (Expired(e) /\ since'[e] # since[e]) => TimedOut(e)'
        /\ TimedOut(e) => TimedOut(e)' /\ since'[e] = since[e]

\* C34: a handshake call whose peer never sends its frame does not wait
\* forever: Session::accept, and Session::connect once it has written its
\* Handshake, waits until a frame arrives or the 30 s timer fires, and when the
\* timer fires it returns the Timeout error, without a Session and without
\* waiting again.
C34_Terminates ==
    /\ []C34_Safe
    /\ [][C34_Step]_vars
    /\ \A e \in Ends : Waiting(e) ~> (wire[e] # <<>> \/ TimedOut(e))

\* both calls have returned Timeout, connect after it had written its
\* Handshake, and there is no Session
C34_Witness ==
    /\ \A e \in Ends : TimedOut(e)
    /\ wire["R"] # <<>>
    /\ wire["I"] = <<>>
    /\ DOMAIN sess = {}

\* accept has returned Timeout while connect has not run
C34_WitnessAccept == TimedOut("R") /\ pc["I"] = "start" /\ wire["R"] = <<>>
(***************************************************************************)
(* main.rs, session.rs: one heartbeat and two chat loops that call recv    *)
(***************************************************************************)
\* the heartbeat timer of e fires for the first and only time:
\* Session::send_heartbeat
HeartbeatOnce(e) ==
    /\ DOMAIN sess = Ends
    /\ \A x \in Ends : sent[x] = <<>>
    /\ \E m \in {Message_heartbeat(now(e))} :
          /\ wire' = [wire EXCEPT ![Peer(e)] = Append(@, m)]
          /\ sent' = [sent EXCEPT ![e] = <<m>>]
    /\ UNCHANGED <<rvars, ovars, time, skew, pc, since, hsres, keypair, sess, rcvd,
                   rots, tampers>>

\* run_chat_loop of e: session.recv() returns; on Ok the loop calls it again,
\* on Err the loop breaks and session.close() writes a Disconnect and drops
\* the Session
LoopRecv(e) ==
    /\ e \in DOMAIN sess
    /\ wire[e] # <<>>
    /\ LET out == Session_recv(sess[e], Head(wire[e]), now(e))
           bye == Message_disconnect(Some("User requested disconnect"), now(e))
       IN  IF out.res.ok
           THEN /\ sess' = [sess EXCEPT ![e] = out.st]
                /\ wire' = [wire EXCEPT ![e] = Tail(@), ![Peer(e)] = @ \o out.out]
                /\ pc' = pc
           ELSE /\ sess' = [x \in DOMAIN sess \ {e} |-> sess[x]]
                /\ wire' = [wire EXCEPT ![e] = Tail(@),
                                        ![Peer(e)] = (@ \o out.out) \o <<bye>>]
                /\ pc' = [pc EXCEPT ![e] = "closed"]
    /\ UNCHANGED <<rvars, ovars, time, skew, since, hsres, keypair, sent, rcvd, rots,
                   tampers>>

BeatNext ==
    \/ HandshakeNext
    \/ \E e \in Ends : HeartbeatOnce(e)
    \/ \E e \in Ends : LoopRecv(e)

\* the handshake calls run on, and each chat loop goes on calling recv
SpecBeat ==
    /\ SInit
    /\ [][BeatNext]_vars
    /\ WF_vars(Connect)
    /\ WF_vars(ConnectFinish)
    /\ WF_vars(Accept)
    /\ \A e \in Ends : WF_vars(LoopRecv(e))

\* a Heartbeat is on its way to x
HeartbeatInFlight(x) ==
    \E i \in DOMAIN wire[x] : wire[x][i].message_type = "Heartbeat"

\* this step writes a Heartbeat to x
HeartbeatWritten(x) ==
    \E i \in DOMAIN wire'[x] :
        i > Len(wire[x]) /\ wire'[x][i].message_type = "Heartbeat"

\* C35, as the specification words it: after the one send_heartbeat call, with
\* both chat loops calling recv, there is a point after which no Heartbeat is
\* written any more.
C35_Quiesces == <>[][\A x \in Ends : ~HeartbeatWritten(x)]_vars

\* what the code does: from the send_heartbeat call on, as long as both
\* sessions are there, a Heartbeat is on its way to one of the two peers
C35_AlwaysInFlight ==
    ((\E e \in Ends : sent[e] # <<>>) /\ DOMAIN sess = Ends)
        => \E x \in Ends : HeartbeatInFlight(x)

\* the Heartbeat has come back to the peer that sent the first one
C35_WitnessBack ==
    /\ DOMAIN sess = Ends
    /\ \E e \in Ends : sent[e] # <<>> /\ HeartbeatInFlight(e)
(***************************************************************************)
(* session.rs: the ratchet after a recv that returned an error             *)
(***************************************************************************)
\* this step is a recv() of e that returns an error
RecvFails(e) ==
    /\ e \in DOMAIN sess
    /\ Len(rcvd'[e]) = Len(rcvd[e]) + 1
    /\ ~Returned_recv(e).ok

\* the receive side of the ratchet of e is as it was
RecvSideKept(e) ==
    /\ sess'[e].ratchet.recv_counter = sess[e].ratchet.recv_counter
    /\ sess'[e].ratchet.recv_chain_key = sess[e].ratchet.recv_chain_key
    /\ sess'[e].ratchet.skipped_message_keys = sess[e].ratchet.skipped_message_keys

\* C36, as the specification words it: a recv that returns an error leaves
\* recv_counter, recv_chain_key and the skipped-key cache as it found them.
C36_ErrorKeepsRatchet ==
    [][\A e \in Ends : RecvFails(e) => RecvSideKept(e)]_vars

\* what the code does: the receive side is kept by a recv that fails before
\* or in get_recv_key, and a recv whose decryption fails has taken the key of
\* the frame's counter out of the ratchet
C36_KeptUnlessDecryptionFails ==
    [][\A e \in Ends :
          RecvFails(e) =>
              \/ RecvSideKept(e)
              \/ /\ Returned_recv(e) = NetErr("ConnectionError", "Decryption failed")
                 /\ get_recv_key(sess[e].ratchet,
                                 Head(wire[e]).payload.message_counter).res.ok
                 /\ sess'[e].ratchet =
                        get_recv_key(sess[e].ratchet,
                                     Head(wire[e]).payload.message_counter).st]_vars

\* a recv has failed on a frame with a flipped bit and has moved recv_counter
\* past the counter of the frame
C36_WitnessAdvanced ==
    \E e \in Ends : \E k \in DOMAIN rcvd[e] :
        /\ Flipped(rcvd[e][k].msg)
        /\ ~rcvd[e][k].res.ok
        /\ rcvd[e][k].recv_counter = rcvd[e][k].msg.payload.message_counter + 1
(***************************************************************************)
(* session.rs: an EncryptedMessage frame that is delivered again           *)
(***************************************************************************)
\* the frames e has read and recv has returned the plaintext of
Accepted(e) ==
    {k \in DOMAIN rcvd[e] :
        rcvd[e][k].msg.message_type = "EncryptedMessage" /\ rcvd[e][k].res.ok}

\* someone on the path lets the second frame on its way to e overtake the
\* first
Reorder(e) ==
    /\ Len(wire[e]) >= 2
    /\ wire' = [wire EXCEPT ![e] = <<@[2], @[1]>> \o Tail(Tail(@))]
    /\ UNCHANGED <<rvars, ovars, time, skew, pc, since, hsres, keypair, sess, sent,
                   rcvd, rots, tampers>>

\* someone on the path delivers to e once more a frame e has accepted
Redeliver(e) ==
    /\ tampers < MaxTamper
    /\ \E k \in Accepted(e) : wire' = [wire EXCEPT ![e] = Append(@, rcvd[e][k].msg)]
    /\ tampers' = tampers + 1
    /\ UNCHANGED <<rvars, ovars, time, skew, pc, since, hsres, keypair, sess, sent,
                   rcvd, rots>>

\* the initiator sends, the responder receives
AgainNext ==
    \/ HandshakeNext
    \/ \E p \in Plain : Send("I", p)
    \/ Recv("R")
    \/ Reorder("R")
    \/ Redeliver("R")

SpecAgain == SInit /\ [][AgainNext]_vars

\* the j-th frame e read was accepted and the k-th is the same frame
SameFrameAgain(e, j, k) ==
    /\ j \in Accepted(e)
    /\ j < k
    /\ rcvd[e][k].msg = rcvd[e][j].msg

\* C37: when an EncryptedMessage frame whose plaintext recv has returned is
\* delivered to the same session again, the later recv returns an error and
\* not the plaintext, whether the key of the frame's counter came from the
\* chain or from the skipped-key cache the first time.
C37_NotAcceptedTwice ==
    \A e \in Ends : \A j, k \in DOMAIN rcvd[e] :
        SameFrameAgain(e, j, k) => ~rcvd[e][k].res.ok

\* a frame that was accepted in order has been delivered again and refused
C37_Witness ==
    \E e \in Ends : \E j, k \in DOMAIN rcvd[e] :
        /\ SameFrameAgain(e, j, k)
        /\ rcvd[e][j].msg.payload.message_counter = rcvd[e][j].recv_counter - 1
        /\ ~rcvd[e][k].res.ok

\* a frame that was accepted with a key from the skipped-key cache has been
\* delivered again and refused
C37_WitnessCached ==
    \E e \in Ends : \E j, k \in DOMAIN rcvd[e] :
        /\ SameFrameAgain(e, j, k)
        /\ j > 1
        /\ rcvd[e][j].msg.payload.message_counter < rcvd[e][j - 1].msg.payload.message_counter
        /\ rcvd[e][j].recv_counter = rcvd[e][j - 1].recv_counter
        /\ ~rcvd[e][k].res.ok
(***************************************************************************)
(* ratchet.rs: both peers of a session call rekey with one new root key    *)
(***************************************************************************)
\* a second shared secret of the two peers, and the root key made of it
NewSecret == <<"ss", <<"pk", "kp">>, "rnd2">>

NewRoot == derive_master_key(NewSecret, "aegis-v1-salt")

\* the owner of the session of e calls session.ratchet.rekey(new_root_key)
RekeyCall(e) ==
    /\ e \in DOMAIN sess
    /\ sess[e].ratchet.root_key # NewRoot
    /\ sess' = [sess EXCEPT ![e].ratchet = rekey(@, NewRoot, now(e))]
    /\ UNCHANGED <<rvars, ovars, time, skew, pc, since, hsres, keypair, wire, sent,
                   rcvd, rots, tampers>>

RekeyNext ==
    \/ ExchangeNext
    \/ \E e \in Ends : RekeyCall(e)

SpecRekey == SInit /\ [][RekeyNext]_vars

\* both peers have called rekey(NewRoot) and neither has sent or received
\* since
BothRekeyed ==
    /\ DOMAIN sess = Ends
    /\ \A e \in Ends : /\ sess[e].ratchet.root_key = NewRoot
                       /\ sess[e].ratchet.send_counter = 0
                       /\ sess[e].ratchet.recv_counter = 0

\* C38, as the specification words it: after both peers have called rekey
\* with the same new root key, the send chain of each is the receive chain of
\* the other.
C38_PairedAfterRekey ==
    BothRekeyed
        => \A e \in Ends :
               sess[e].ratchet.send_chain_key = sess[Peer(e)].ratchet.recv_chain_key

\* what the code does: after both rekey calls the two peers hold the same
\* send chain and the same receive chain, whatever their role
C38_SameChains ==
    BothRekeyed
        => \A e \in Ends :
               /\ sess[e].ratchet.send_chain_key = sess[Peer(e)].ratchet.send_chain_key
               /\ sess[e].ratchet.recv_chain_key = sess[Peer(e)].ratchet.recv_chain_key
               /\ sess[e].ratchet.send_chain_key # sess[e].ratchet.recv_chain_key

\* a message sent after both rekey calls, with counter 0 and no rotation, has
\* been read by the peer and has not decrypted
C38_WitnessUndecryptable ==
    \E e \in Ends : \E k \in DOMAIN rcvd[e] :
        /\ \A x \in Ends : sess[x].ratchet.root_key = NewRoot
        /\ k = Len(rcvd[e])
        /\ rcvd[e][k].msg.message_type = "EncryptedMessage"
        /\ rcvd[e][k].msg.payload.message_counter = 0
        /\ rcvd[e][k].msg.payload.ciphertext.key.base = NewSecret
        /\ rcvd[e][k].recv_counter = 1
        /\ rcvd[e][k].res = NetErr("ConnectionError", "Decryption failed")
(***************************************************************************)
(* session.rs: send and recv on a session that has read a Disconnect       *)
(***************************************************************************)
NotEstablished == NetErr("ConnectionError", "Session not established")

\* the session of e is there and its established flag is false
Down(e) == e \in DOMAIN sess /\ ~sess[e].established

\* the owner of the session of e calls send(p) after the session has gone
\* down
SendDown(e, p) ==
    /\ Down(e)
    /\ Len(sent["I"]) + Len(sent["R"]) < MaxSend
    /\ LET out == Session_send(sess[e], p, now(e), <<e, Len(sent[e])>>)
       IN  /\ sess' = [sess EXCEPT ![e] = out.st]
           /\ wire' = [wire EXCEPT ![Peer(e)] = @ \o out.out]
           /\ sent' = [sent EXCEPT ![e] =
                          Append(@, [pt |-> p,
                                     res |-> out.res,
                                     counter |-> out.st.ratchet.send_counter])]
    /\ UNCHANGED <<rvars, ovars, time, skew, pc, since, hsres, keypair, rcvd, rots,
                   tampers>>

\* the owner of the session of e calls recv() after the session has gone
\* down: recv returns before it reads from the connection
RecvDown(e) ==
    /\ Down(e)
    /\ Len(rcvd[e]) < MaxFrames
    /\ rcvd' = [rcvd EXCEPT ![e] =
                   Append(@, [msg |-> NoFrame,
                              res |-> NotEstablished,
                              keyres |-> Err("NotCalled"),
                              established |-> sess[e].established,
                              recv_counter |-> sess[e].ratchet.recv_counter,
                              rots |-> rots[e]])]
    /\ UNCHANGED <<rvars, ovars, time, skew, pc, since, hsres, keypair, wire, sess,
                   sent, rots, tampers>>

DownNext ==
    \/ HandshakeNext
    \/ \E e \in Ends : \E p \in Plain : Send(e, p)
    \/ \E e \in Ends : Close(e)
    \/ \E e \in Ends : RecvFrame(e)
    \/ \E e \in Ends : \E p \in Plain : SendDown(e, p)
    \/ \E e \in Ends : RecvDown(e)

SpecDown == SInit /\ [][DownNext]_vars

\* what a step does to a session of e that is down and is not dropped by the
\* step
InertStep(e) ==
    /\ sess'[e] = sess[e]
    /\ Len(wire'[Peer(e)]) <= Len(wire[Peer(e)])
    /\ Len(wire'[e]) >= Len(wire[e])
    /\ Len(sent'[e]) > Len(sent[e]) => sent'[e][Len(sent'[e])].res = NotEstablished
    /\ Len(rcvd'[e]) > Len(rcvd[e]) => Returned_recv(e) = NotEstablished

\* C40: once the established flag of a session is false, it stays false; every
\* send and recv called on the session returns the error "Session not
\* established", and the call leaves both counters, both chain keys and the
\* cache as they were, writes no frame and reads none.
C40_Absorbing ==
    [][\A e \in Ends : (Down(e) /\ e \in DOMAIN sess') => InertStep(e)]_vars

\* a session that had sent a message has read a Disconnect, and a send called
\* on it afterwards has returned the error
C40_Witness ==
    \E e \in Ends :
        /\ Down(e)
        /\ sess[e].ratchet.send_counter = 1
        /\ Len(sent[e]) = 2
        /\ sent[e][2].res = NotEstablished
        /\ wire[Peer(e)] = <<>>

\* a recv called on a session that is down has returned the error
C40_WitnessRecv ==
    \E e \in Ends :
        /\ Down(e)
        /\ Len(rcvd[e]) = 2
        /\ rcvd[e][1].msg.message_type = "Disconnect"
        /\ rcvd[e][2].res = NotEstablished

====
